---- MODULE Spec2Model ----
(***************************************************************************)
(* Pose synchronisation between the Forge (BIM) viewer and the panorama    *)
(* viewer: the zustand store of src/store/syncStore.js, the two viewer     *)
(* components that drive it and the calibration editor of SplitPane.       *)
(*                                                                         *)
(* Numbers are fixed point: one unit is 0.0001 (metres for positions,      *)
(* dimensionless for quaternion components).  Time is in milliseconds.     *)
(*                                                                         *)
(* A JavaScript position is modelled with its shape, because the code      *)
(* mixes arrays [x,y,z] and objects {x,y,z}: indexing an object with [0]   *)
(* or reading .x of an array yields undefined.  A quaternion array carries *)
(* a flag `nan` that says its components are not numbers (NaN/undefined).  *)
(***************************************************************************)
EXTENDS Integers, Sequences, FiniteSets, TLC

VARIABLES
  store,      \* the zustand state object (syncStore.js 137-170)
  closure,    \* variables of the store's creator closure (syncStore.js 69-73)
  frames,     \* animation-frame callbacks the browser holds: [id, isForge]
  now,        \* Date.now()
  frameTime,  \* the time of the last animation frame the browser delivered
  three,      \* which window.THREE the page has: decides what slerp does
  forge,      \* ForgeViewer component: refs, state, camera, timers
  pano,       \* PathCameraExplorer component: refs, camera, timers
  app,        \* SplitPane and localStorage
  nOps,       \* number of client / user operations so far (bounded)
  lastOp,     \* history: the operation of the last step and its arguments
  hist        \* history: bookkeeping the properties refer to

vars == <<store, closure, frames, now, frameTime, three, forge, pano, app, nOps, lastOp, hist>>

(***************************************************************************)
(* Bounds of the model.                                                    *)
(***************************************************************************)
MaxOps   == 2      \* client / user operations in one behaviour
MaxTime  == 450    \* the clock stops advancing here
TimeStep == 150    \* granularity of the clock
MaxCoord == 1      \* SpecCalib converts the points of whole metres within +-MaxCoord
MaxQ     == 1      \* SpecQuat: quaternions with components in -MaxQ..MaxQ, normalised
MaxPath  == 4      \* SpecPath: samples in the raw dataset
MaxBX    == 12     \* SpecBoundary: columns of query points, 4 apart from x = 36
MaxBY    == 24     \* SpecBoundary: rows of query points, 4 apart from y = 36
MaxFrames == 2     \* SpecLoad: frames in the dataset the server answers with
MaxSteps == 22     \* SpecLoad: points generated of the 200-point fallback path
MaxRows  == 4      \* SpecEditor: rows the editor grows to
MaxCalls == 4      \* SpecThrottle, SpecDebounce: calls of the wrapped function
MaxClock == 10     \* SpecThrottle, SpecDebounce: steps of the clock
ClockStep == 50    \* SpecThrottle, SpecDebounce: granularity of the clock
MaxNear  == 3      \* SpecNearest: points of the conditioned path
MaxDrain == 4      \* LiveSync: steps of the clock after MaxTime

(***************************************************************************)
(* Program constants.                                                      *)
(***************************************************************************)
vectorTolerance == 10      \* 0.001
quatTolerance   == 100     \* 0.01
DURATION        == 300     \* ms, the divisor in animateSync

(***************************************************************************)
(* JavaScript values.                                                      *)
(***************************************************************************)
NULL == [shape |-> "null"]
Arr(t) == [shape |-> "arr", c |-> t]                  \* [x, y, z]
Obj(t) == [shape |-> "obj", c |-> t]                  \* {x, y, z}
Quat(t) == [shape |-> "arr", nan |-> FALSE, c |-> t]  \* [x, y, z, w]
QuatNaN == [shape |-> "arr", nan |-> TRUE, c |-> <<0, 0, 0, 0>>]

Abs(x) == IF x < 0 THEN -x ELSE x

\* v.x for a position value: undefined for an array, and `0 || v` is v.
\* Result of `p.x || v`.
xOr(p, v) == IF p.shape = "obj" /\ p.c[1] # 0 THEN p.c[1] ELSE v

(***************************************************************************)
(* syncStore.js: deep equality checks.  v[i] of an object is undefined,    *)
(* Math.abs(a - undefined) is NaN and NaN < tolerance is false.            *)
(***************************************************************************)
vectorEqual(v1, v2) ==
  IF v1.shape = "null" \/ v2.shape = "null" THEN FALSE
  ELSE /\ v1.shape = "arr"
       /\ v2.shape = "arr"
       /\ \A i \in 1..3 : Abs(v1.c[i] - v2.c[i]) < vectorTolerance

quatEqual(q1, q2) ==
  IF q1.shape = "null" \/ q2.shape = "null" THEN FALSE
  ELSE /\ ~q1.nan
       /\ ~q2.nan
       /\ \A i \in 1..4 : Abs(q1.c[i] - q2.c[i]) < quatTolerance

(***************************************************************************)
(* Interpolation helpers.  t is carried as elapsed milliseconds e, with    *)
(* t = e / DURATION.                                                       *)
(***************************************************************************)
lerp(a, b, e) == a + ((b - a) * e) \div DURATION

\* slerp builds `new (window.THREE || {}).Quaternion()` and calls
\* q.slerpQuaternions(q1, q2, t) with two ARRAYS.  Without window.THREE, or
\* with a THREE that has no slerpQuaternions, the call throws; otherwise
\* copy() reads .x/.y/.z/.w of an array and every component of the result
\* is NaN or undefined.
slerpThrows == three = "legacy"
slerp(q1, q2, e) == QuatNaN

\* Mutant of clampT: the clamp is missing.
clampTNone(e) == e

\* t after  `if (t >= 1) t = 1`
clampT(e) == IF e >= DURATION THEN DURATION ELSE e

(***************************************************************************)
(* The browser's animation-frame queue.  Real ids never repeat; the model  *)
(* reuses an id only when neither a pending callback nor rafId holds it.   *)
(***************************************************************************)
freshFrameId(s) ==
  CHOOSE i \in 1..(Cardinality(s.frames) + 2) :
    /\ i # s.closure.rafId
    /\ \A f \in s.frames : f.id # i
    /\ \A j \in 1..(i - 1) : j = s.closure.rafId \/ \E f \in s.frames : f.id = j

requestAnimationFrame(s, isForge) ==
  LET id == freshFrameId(s)
  IN [s EXCEPT !.frames = @ \cup {[id |-> id, isForge |-> isForge]},
               !.closure.rafId = id]

cancelAnimationFrame(s, id) == [s EXCEPT !.frames = {f \in @ : f.id # id}]

(***************************************************************************)
(* animateSync(isForge), one animation tick at time t.                     *)
(***************************************************************************)
animateSync(s, isForge, t) ==
  LET state == s.store
      e     == t - state.syncStartTime
      tt    == clampT(e)
      s1    == IF e >= DURATION THEN [s EXCEPT !.store.isAnimating = FALSE] ELSE s
      tgt   == IF isForge THEN state.targetForgePose ELSE state.targetPanoPose
      cur   == IF isForge THEN state.forgePosition ELSE state.panoPosition
      newPos == [i \in 1..3 |-> lerp(xOr(cur, tgt.pos.c[i]), tgt.pos.c[i], tt)]
      newQuat == slerp(IF isForge THEN state.forgeCam.quat ELSE state.panoCam.quat,
                       tgt.quat, tt)
  IN IF ~state.isAnimating \/ state.isSyncing
     THEN [s EXCEPT !.closure.rafId = 0]
     ELSE IF slerpThrows THEN s1
     ELSE IF tt < DURATION
          THEN requestAnimationFrame(
                 IF isForge
                 THEN [s1 EXCEPT !.store.forgePosition = Obj(newPos),
                                 !.store.forgeCam.quat = newQuat]
                 ELSE [s1 EXCEPT !.store.panoPosition = Obj(newPos),
                                 !.store.panoCam.quat = newQuat],
                 isForge)
          ELSE s1

(***************************************************************************)
(* Core setters.                                                           *)
(***************************************************************************)
setCurrentPanoIndex(s, idx) == [s EXCEPT !.store.currentPanoIndex = idx]
setCalibration(s, calib) == [s EXCEPT !.store.calibration = calib]
setIsSyncing(s, v) == [s EXCEPT !.store.isSyncing = v]
setSource(s, src) == [s EXCEPT !.store.source = src]

pushFloorClick(s, pos, t) ==
  [s EXCEPT !.store.floorClick = [pos |-> pos, seq |-> s.store.floorClickSeq + 1, ts |-> t],
            !.store.floorClickSeq = @ + 1,
            !.store.lastSyncTime = t]

(***************************************************************************)
(* Smooth sync actions.                                                    *)
(***************************************************************************)
changedPano(st, pos, quat) ==
  ~vectorEqual(pos, st.panoPosition) \/ ~quatEqual(quat, st.panoCam.quat)

changedForge(st, pos, quat) ==
  ~vectorEqual(pos, st.forgePosition) \/ ~quatEqual(quat, st.forgeCam.quat)

\* Mutant of restartFrame: the pending callback is not cancelled.
restartFrameNoCancel(s, isForge) == requestAnimationFrame(s, isForge)

\* if (rafId) cancelAnimationFrame(rafId); rafId = requestAnimationFrame(...)
restartFrame(s, isForge) ==
  requestAnimationFrame(
    IF s.closure.rafId # 0 THEN cancelAnimationFrame(s, s.closure.rafId) ELSE s,
    isForge)

smoothSyncPano(s, pos, quat, t) ==
  IF ~changedPano(s.store, pos, quat) THEN s
  ELSE restartFrame(
         [s EXCEPT !.store.targetPanoPose = [pos |-> pos, quat |-> quat],
                   !.store.isAnimating = TRUE,
                   !.store.syncStartTime = t,
                   !.store.source = "pano",
                   !.store.lastSyncTime = t,
                   !.store.syncCount = @ + 1],
         FALSE)

\* Mutant of smoothSyncForge: the source is not set.
smoothSyncForgeKeepsSource(s, pos, quat, t) ==
  IF ~changedForge(s.store, pos, quat) THEN s
  ELSE restartFrame(
         [s EXCEPT !.store.targetForgePose = [pos |-> pos, quat |-> quat],
                   !.store.isAnimating = TRUE,
                   !.store.syncStartTime = t,
                   !.store.lastSyncTime = t,
                   !.store.syncCount = @ + 1],
         TRUE)

smoothSyncForge(s, pos, quat, t) ==
  IF ~changedForge(s.store, pos, quat) THEN s
  ELSE restartFrame(
         [s EXCEPT !.store.targetForgePose = [pos |-> pos, quat |-> quat],
                   !.store.isAnimating = TRUE,
                   !.store.syncStartTime = t,
                   !.store.source = "forge",
                   !.store.lastSyncTime = t,
                   !.store.syncCount = @ + 1],
         TRUE)

(***************************************************************************)
(* Legacy publish (instant).                                               *)
(***************************************************************************)
\* Mutant of fromPanoCam: syncCount is not incremented.
fromPanoCamNoCount(s, pos, quat, t) ==
  IF vectorEqual(pos, s.closure.prevPanoPos) /\ quatEqual(quat, s.closure.prevPanoQuat)
  THEN s
  ELSE [s EXCEPT !.closure.prevPanoPos = pos,
                 !.closure.prevPanoQuat = quat,
                 !.store.panoCam = [pos |-> pos, quat |-> quat],
                 !.store.source = "pano",
                 !.store.lastSyncTime = t]

fromPanoCam(s, pos, quat, t) ==
  IF vectorEqual(pos, s.closure.prevPanoPos) /\ quatEqual(quat, s.closure.prevPanoQuat)
  THEN s
  ELSE [s EXCEPT !.closure.prevPanoPos = pos,
                 !.closure.prevPanoQuat = quat,
                 !.store.panoCam = [pos |-> pos, quat |-> quat],
                 !.store.source = "pano",
                 !.store.lastSyncTime = t,
                 !.store.syncCount = @ + 1]

fromForgeCam(s, pos, quat, t) ==
  IF vectorEqual(pos, s.closure.prevForgePos) /\ quatEqual(quat, s.closure.prevForgeQuat)
  THEN s
  ELSE [s EXCEPT !.closure.prevForgePos = pos,
                 !.closure.prevForgeQuat = quat,
                 !.store.forgeCam = [pos |-> pos, quat |-> quat],
                 !.store.source = "forge",
                 !.store.lastSyncTime = t,
                 !.store.syncCount = @ + 1]

fromPanoPosition(s, pos, t) ==
  IF vectorEqual(pos, s.closure.prevPanoPos) THEN s
  ELSE [s EXCEPT !.closure.prevPanoPos = pos,
                 !.store.panoPosition = pos,
                 !.store.source = "pano",
                 !.store.lastSyncTime = t,
                 !.store.syncCount = @ + 1]

fromForgePosition(s, pos, t) ==
  IF vectorEqual(pos, s.closure.prevForgePos) THEN s
  ELSE [s EXCEPT !.closure.prevForgePos = pos,
                 !.store.forgePosition = pos,
                 !.store.source = "forge",
                 !.store.lastSyncTime = t,
                 !.store.syncCount = @ + 1]

(***************************************************************************)
(* Silent actions.                                                         *)
(***************************************************************************)
\* Mutant of setPanoCam: the setter publishes like fromPanoCam.
setPanoCamPublishing(s, pos, quat) ==
  [s EXCEPT !.store.panoCam = [pos |-> pos, quat |-> quat], !.store.source = "pano",
            !.store.syncCount = @ + 1]

setPanoCam(s, pos, quat) == [s EXCEPT !.store.panoCam = [pos |-> pos, quat |-> quat]]
setForgeCam(s, pos, quat) == [s EXCEPT !.store.forgeCam = [pos |-> pos, quat |-> quat]]
setPanoPosition(s, pos) == [s EXCEPT !.store.panoPosition = pos]
setForgePosition(s, pos) == [s EXCEPT !.store.forgePosition = pos]

(***************************************************************************)
(* Convenience.                                                            *)
(***************************************************************************)
applyForgePose(s, pos, quat, smooth, publish, t) ==
  IF smooth THEN smoothSyncForge(s, pos, quat, t)
  ELSE IF publish
       THEN [s EXCEPT !.store.forgeCam = [pos |-> pos, quat |-> quat],
                      !.store.forgePosition = pos,
                      !.store.source = "forge",
                      !.store.lastSyncTime = t,
                      !.store.syncCount = @ + 1]
       ELSE [s EXCEPT !.store.forgeCam = [pos |-> pos, quat |-> quat],
                      !.store.forgePosition = pos]

applyPanoPose(s, pos, quat, smooth, publish, t) ==
  IF smooth THEN smoothSyncPano(s, pos, quat, t)
  ELSE IF publish
       THEN [s EXCEPT !.store.panoCam = [pos |-> pos, quat |-> quat],
                      !.store.panoPosition = pos,
                      !.store.source = "pano",
                      !.store.lastSyncTime = t,
                      !.store.syncCount = @ + 1]
       ELSE [s EXCEPT !.store.panoCam = [pos |-> pos, quat |-> quat],
                      !.store.panoPosition = pos]

(***************************************************************************)
(* Helpers.                                                                *)
(***************************************************************************)
startSync(s) == [s EXCEPT !.store.isSyncing = TRUE, !.store.syncInProgress = TRUE]
endSync(s) == [s EXCEPT !.store.isSyncing = FALSE, !.store.syncInProgress = FALSE]
resetSyncCount(s) == [s EXCEPT !.store.syncCount = 0]

(***************************************************************************)
(* The viewers' accepted camera reports, as sequences of store calls.      *)
(* useSyncStore.setState(partial) is zustand's own setter, which the       *)
(* components call past the store's actions: it merges partial into the    *)
(* state.                                                                  *)
(***************************************************************************)
setState(s, partial) == [s EXCEPT !.store = partial @@ @]

\* the fields a direct setState(partial) changes
directWrites(s, partial) == {k \in DOMAIN partial : s.store[k] # partial[k]}

\* ForgeViewer onCameraChange, accepted branch
forgeReport(s, pos, quat, t) ==
  smoothSyncForge(setForgeCam(setState(s, [source |-> "forge"]), pos, quat), pos, quat, t)

\* PathCameraExplorer debouncedSync, after the token and camera checks
panoReport(s, pos, quat, t) ==
  smoothSyncPano(setPanoCam(setState(s, [source |-> "pano"]), pos, quat), pos, quat, t)

(***************************************************************************)
(* Initial state of the store and of its closure.                          *)
(***************************************************************************)
InitStore ==
  [ calibration      |-> NULL,
    panoCam          |-> [pos |-> Arr(<<0, -141421, 231421>>), quat |-> Quat(<<0, 10000, 0, 0>>)],
    forgeCam         |-> [pos |-> Arr(<<696000, 936000, 59100>>), quat |-> Quat(<<0, 7071, 0, 7071>>)],
    panoPosition     |-> Obj(<<0, 0, 0>>),
    forgePosition    |-> Obj(<<0, 0, 0>>),
    targetPanoPose   |-> NULL,
    targetForgePose  |-> NULL,
    isAnimating      |-> FALSE,
    syncStartTime    |-> 0,
    isSyncing        |-> FALSE,
    source           |-> "null",
    lastSyncTime     |-> 0,
    syncInProgress   |-> FALSE,
    syncCount        |-> 0,
    floorClick       |-> NULL,
    floorClickSeq    |-> 0,
    currentPanoIndex |-> 0 ]

InitClosure ==
  [ prevPanoPos |-> NULL, prevPanoQuat |-> NULL,
    prevForgePos |-> NULL, prevForgeQuat |-> NULL,
    rafId |-> 0 ]

(***************************************************************************)
(* Inputs: the poses clients and users report.  P1 and Q1 are within the   *)
(* noise tolerances of the pose the store starts with.                     *)
(***************************************************************************)
P1 == <<5, 0, 0>>
P2 == <<30000, 60000, 0>>
Q1 == <<0, 9999, 50, 0>>
Q2 == <<0, 7071, 0, 7071>>

Poses ==
  { [pos |-> Arr(P1), quat |-> Quat(Q1)],
    [pos |-> Arr(P2), quat |-> Quat(Q2)] }

(***************************************************************************)
(* utils/calibratePanoToForge.js and lib/forge_helpers.js: the similarity  *)
(* fit between panorama and Revit reference points.  Inside the solvers    *)
(* coordinates are in decimetres (the editor's rows hold multiples of      *)
(* 0.1 m), a scale is in units of 0.0001 and a rotation has integer        *)
(* entries; the translation is returned in the fixed point of the viewers. *)
(***************************************************************************)
\* `const x = e; ...`: the value of F(e), with e evaluated once
Let(e, F(_)) == CHOOSE r \in {F(x) : x \in {e}} : TRUE

transpose(m0) == Let(m0, LAMBDA m : [i \in 1..3 |-> [j \in 1..3 |-> m[j][i]]])

dot(m0, v0) ==
  Let(<<m0, v0>>, LAMBDA a :
    LET m == a[1]
        v == a[2]
    IN [i \in 1..3 |-> m[i][1] * v[1] + m[i][2] * v[2] + m[i][3] * v[3]])

mmul(a0, b0) ==
  Let(<<a0, b0>>, LAMBDA ab :
    LET a == ab[1]
        b == ab[2]
    IN [i \in 1..3 |-> [j \in 1..3 |->
         a[i][1] * b[1][j] + a[i][2] * b[2][j] + a[i][3] * b[3][j]]])

det(m0) ==
  Let(m0, LAMBDA m :
      m[1][1] * (m[2][2] * m[3][3] - m[2][3] * m[3][2])
    - m[1][2] * (m[2][1] * m[3][3] - m[2][3] * m[3][1])
    + m[1][3] * (m[2][1] * m[3][2] - m[2][2] * m[3][1]))

\* V.setColumn(j, V.getColumn(j).map(x => -x))
negateColumn(V0, j) ==
  Let(V0, LAMBDA V : [i \in 1..3 |-> [k \in 1..3 |-> IF k = j THEN -V[i][k] ELSE V[i][k]]])

\* numeric.mul(scale, x) and x * (1 / scale) with a fixed-point scale; the
\* products are split so that they stay within 32 bits.
mul(scale0, x0) ==
  Let(<<scale0, x0>>, LAMBDA a :
    (a[2] \div 10000) * a[1] + ((a[2] % 10000) * a[1]) \div 10000)

mulInv(scale0, x0) ==
  Let(<<scale0, x0>>, LAMBDA a :
    (a[2] \div a[1]) * 10000 + ((a[2] % a[1]) * 10000) \div a[1])

RECURSIVE isqrtIter(_, _)
isqrtIter(n, x) ==
  Let((x + n \div x) \div 2, LAMBDA y : IF y >= x THEN x ELSE isqrtIter(n, y))

isqrt(n0) == Let(n0, LAMBDA n : IF n = 0 THEN 0 ELSE isqrtIter(n, n))

\* reduce((acc, v) => acc + v, 0) over the numbers f[1..n]
RECURSIVE reduce(_, _)
reduce(f, n) == IF n = 0 THEN 0 ELSE reduce(f, n - 1) + f[n]

centroid(pts0) ==
  Let(pts0, LAMBDA pts :
    [c \in 1..3 |-> reduce([i \in 1..Len(pts) |-> pts[i][c]], Len(pts)) \div Len(pts)])

centered(pts0, c0) ==
  Let(<<pts0, c0>>, LAMBDA a :
    LET pts == a[1]
        c == a[2]
    IN [i \in 1..Len(pts) |-> <<pts[i][1] - c[1], pts[i][2] - c[2], pts[i][3] - c[3]>>])

sumSq(pts0) ==
  Let(pts0, LAMBDA pts :
    reduce([i \in 1..Len(pts) |->
             pts[i][1] * pts[i][1] + pts[i][2] * pts[i][2] + pts[i][3] * pts[i][3]], Len(pts)))

\* Math.sqrt(sum / n), in millimetres
rms(pts0) == Let(pts0, LAMBDA pts : isqrt((sumSq(pts) * 10000) \div Len(pts)))

\* H[row][col] += panoCentered[i][col] * revitCentered[i][row]
covariance(panoCentered0, revitCentered0) ==
  Let(<<panoCentered0, revitCentered0>>, LAMBDA a :
    LET panoCentered == a[1]
        revitCentered == a[2]
    IN << <<reduce([i \in 1..Len(a[1]) |-> panoCentered[i][1] * revitCentered[i][1]], Len(a[1])),
            reduce([i \in 1..Len(a[1]) |-> panoCentered[i][2] * revitCentered[i][1]], Len(a[1])),
            reduce([i \in 1..Len(a[1]) |-> panoCentered[i][3] * revitCentered[i][1]], Len(a[1]))>>,
          <<reduce([i \in 1..Len(a[1]) |-> panoCentered[i][1] * revitCentered[i][2]], Len(a[1])),
            reduce([i \in 1..Len(a[1]) |-> panoCentered[i][2] * revitCentered[i][2]], Len(a[1])),
            reduce([i \in 1..Len(a[1]) |-> panoCentered[i][3] * revitCentered[i][2]], Len(a[1]))>>,
          <<reduce([i \in 1..Len(a[1]) |-> panoCentered[i][1] * revitCentered[i][3]], Len(a[1])),
            reduce([i \in 1..Len(a[1]) |-> panoCentered[i][2] * revitCentered[i][3]], Len(a[1])),
            reduce([i \in 1..Len(a[1]) |-> panoCentered[i][3] * revitCentered[i][3]], Len(a[1]))>> >>)

(***************************************************************************)
(* The singular value decomposition H = U diag(S) V^T the libraries        *)
(* return (ml-matrix SVD, numeric.svd), for a matrix with at most one      *)
(* non-zero entry in each row and each column: the singular values are the *)
(* absolute values of the entries in decreasing order, a right vector is   *)
(* the axis of the column and a left vector the signed axis of its row.    *)
(* A zero singular value gets the remaining axes, in index order.          *)
(***************************************************************************)
pivotRow(H, c) ==
  IF \E r \in 1..3 : H[r][c] # 0 THEN CHOOSE r \in 1..3 : H[r][c] # 0 ELSE 0

nth(S, k) == CHOOSE x \in S : Cardinality({y \in S : y <= x}) = k

SVD(H0) ==
  Let(H0, LAMBDA H :
  Let(<<pivotRow(H, 1), pivotRow(H, 2), pivotRow(H, 3)>>, LAMBDA pivot :
  Let([ leftRow |-> LET freeRows == {r \in 1..3 : \A c \in 1..3 : pivot[c] # r}
                        left(c) == IF pivot[c] # 0 THEN pivot[c]
                                   ELSE nth(freeRows, Cardinality({c2 \in 1..c : pivot[c2] = 0}))
                    IN <<left(1), left(2), left(3)>>,
        leftSign |-> LET sign(c) == IF pivot[c] # 0 /\ H[pivot[c]][c] < 0 THEN -1 ELSE 1
                     IN <<sign(1), sign(2), sign(3)>>,
        sigma |-> LET sv(c) == IF pivot[c] = 0 THEN 0 ELSE Abs(H[pivot[c]][c])
                  IN <<sv(1), sv(2), sv(3)>> ], LAMBDA col :
  Let(LET at(k) == CHOOSE c \in 1..3 :
                     Cardinality({c2 \in 1..3 : \/ col.sigma[c2] > col.sigma[c]
                                                \/ (col.sigma[c2] = col.sigma[c] /\ c2 < c)}) = k - 1
      IN <<at(1), at(2), at(3)>>, LAMBDA order :
    [ U |-> [r \in 1..3 |-> [k \in 1..3 |->
               IF col.leftRow[order[k]] = r THEN col.leftSign[order[k]] ELSE 0]],
      S |-> [k \in 1..3 |-> col.sigma[order[k]]],
      V |-> [c \in 1..3 |-> [k \in 1..3 |-> IF order[k] = c THEN 1 ELSE 0]] ]))))

Calibration(scale, rotationMatrix, translation) ==
  [ shape |-> "calib", scale |-> scale, rotation |-> transpose(rotationMatrix),
    rotationMatrix |-> rotationMatrix, translation |-> translation ]

\* V.mmul(U.transpose()) without the determinant check
rotationMatrixUncorrected(U0, V0) == mmul(V0, transpose(U0))

\* rotationMatrix = V.mmul(U.transpose()), with the third column of V
\* negated when the determinant of the rotation is negative
rotationMatrixOf(U0, V0) ==
  Let(<<U0, V0>>, LAMBDA UV :
    LET U == UV[1]
        V == UV[2]
    IN IF det(transpose(mmul(V, transpose(U)))) < 0
       THEN mmul(negateColumn(V, 3), transpose(U))
       ELSE mmul(V, transpose(U)))

flipX(pts0) ==
  Let(pts0, LAMBDA pts : [i \in 1..Len(pts) |-> <<-pts[i][1], pts[i][2], pts[i][3]>>])

\* The covariance matrix handed to the SVD
hMatrix(panoRefs, revitRefs) ==
  Let(<<flipX(panoRefs), revitRefs>>, LAMBDA a :
    covariance(centered(a[1], centroid(a[1])), centered(a[2], centroid(a[2]))))

calculateCalibration(panoRefs0, revitRefs0) ==
  Let(<<flipX(panoRefs0), revitRefs0, panoRefs0>>, LAMBDA a :
  Let([ panoCentroid |-> centroid(a[1]), revitCentroid |-> centroid(a[2]),
        svd |-> SVD(hMatrix(a[3], a[2])) ], LAMBDA c :
  Let([ scale |-> (rms(centered(a[2], c.revitCentroid)) * 10000)
                    \div rms(centered(a[1], c.panoCentroid)),
        rotationMatrix |-> rotationMatrixOf(c.svd.U, c.svd.V) ], LAMBDA r :
  Let(dot(transpose(r.rotationMatrix), c.panoCentroid), LAMBDA turned :
    Calibration(r.scale, r.rotationMatrix,
                <<1000 * c.revitCentroid[1] - mul(r.scale, 1000 * turned[1]),
                  1000 * c.revitCentroid[2] - mul(r.scale, 1000 * turned[2]),
                  1000 * c.revitCentroid[3] - mul(r.scale, 1000 * turned[3])>>)))))

panoToForge(panoPoint, calibration) ==
  LET flippedPoint == <<-panoPoint[1], panoPoint[2], panoPoint[3]>>
      rotated == dot(calibration.rotation, flippedPoint)
  IN <<mul(calibration.scale, rotated[1]) + calibration.translation[1],
       mul(calibration.scale, rotated[2]) + calibration.translation[2],
       mul(calibration.scale, rotated[3]) + calibration.translation[3]>>

forgeToPano(forgePoint, calibration) ==
  LET forgeVec == <<forgePoint[1] - calibration.translation[1],
                    forgePoint[2] - calibration.translation[2],
                    forgePoint[3] - calibration.translation[3]>>
      panoVec == dot(transpose(calibration.rotationMatrix), forgeVec)
  IN <<-mulInv(calibration.scale, panoVec[1]),
       mulInv(calibration.scale, panoVec[2]),
       mulInv(calibration.scale, panoVec[3])>>

(***************************************************************************)
(* lib/forge_helpers.js computeTransform: the same fit with validation;    *)
(* a throw is the value Thrown(message).                                   *)
(***************************************************************************)
Thrown(message) == [shape |-> "error", message |-> message]

computeTransform(revitPoints0, panoPoints0) ==
  Let(<<revitPoints0, panoPoints0>>, LAMBDA a :
  IF Len(a[1]) # Len(a[2]) \/ Len(a[1]) < 3
  THEN Thrown("Need at least 3 matching points")
  ELSE
  Let([ centroidA |-> centroid(a[1]), centroidB |-> centroid(a[2]) ], LAMBDA c :
  Let([ svd |-> SVD(covariance(centered(a[2], c.centroidB), centered(a[1], c.centroidA))),
        sumSqB |-> sumSq(centered(a[2], c.centroidB)) ], LAMBDA h :
  Let([ R |-> LET detProd == det(h.svd.U) * det(h.svd.V)
                  S == IF detProd < 0
                       THEN << <<1, 0, 0>>, <<0, 1, 0>>, <<0, 0, -1>> >>
                       ELSE << <<1, 0, 0>>, <<0, 1, 0>>, <<0, 0, 1>> >>
              IN mmul(mmul(h.svd.U, S), transpose(h.svd.V)),
        scale |-> mulInv(h.sumSqB, h.svd.S[1] + h.svd.S[2] + h.svd.S[3]) ], LAMBDA r :
  Let(dot(r.R, c.centroidB), LAMBDA turned :
    [ shape |-> "transform", R |-> r.R, scale |-> r.scale,
      t |-> <<1000 * c.centroidA[1] - mul(r.scale, 1000 * turned[1]),
              1000 * c.centroidA[2] - mul(r.scale, 1000 * turned[2]),
              1000 * c.centroidA[3] - mul(r.scale, 1000 * turned[3])>> ])))))

(***************************************************************************)
(* Reference point pairs the calibration editor and localStorage can hold, *)
(* in decimetres.  MakePairs lays the Revit points out as the image of the *)
(* (mirrored) panorama points under a turn R0, a factor k and a shift t.   *)
(***************************************************************************)
I3 == << <<1, 0, 0>>, <<0, 1, 0>>, <<0, 0, 1>> >>

MakePairs(flipped, R0, k, t) ==
  [i \in 1..Len(flipped) |->
    [ pano |-> <<-flipped[i][1], flipped[i][2], flipped[i][3]>>,
      revit |-> <<k * dot(R0, flipped[i])[1] + t[1],
                  k * dot(R0, flipped[i])[2] + t[2],
                  k * dot(R0, flipped[i])[3] + t[3]>> ]]

PairLists ==
  LET Triangle == << <<-10, -10, 0>>, <<10, -10, 0>>, <<0, 20, 0>> >>
      Tetra    == << <<30, 0, -10>>, <<-30, 0, -10>>, <<0, 20, 10>>, <<0, -20, 10>> >>
      Segment  == << <<-10, 0, 0>>, <<10, 0, 0>> >>
      Line     == << <<-10, 0, 0>>, <<0, 0, 0>>, <<10, 0, 0>> >>
      RotZ90   == << <<0, -1, 0>>, <<1, 0, 0>>, <<0, 0, 1>> >>
      RotX180  == << <<1, 0, 0>>, <<0, -1, 0>>, <<0, 0, -1>> >>
      Cycle    == << <<0, 0, 1>>, <<1, 0, 0>>, <<0, 1, 0>> >>
      MirrorZ  == << <<1, 0, 0>>, <<0, 1, 0>>, <<0, 0, -1>> >>
  IN << MakePairs(Triangle, I3, 1, <<100, 0, 0>>),
        MakePairs(Triangle, RotZ90, 1, <<0, 50, 0>>),
        MakePairs(Triangle, RotX180, 2, <<30, 30, 0>>),
        MakePairs(Tetra, Cycle, 1, <<0, 0, 30>>),
        MakePairs(Tetra, MirrorZ, 2, <<50, 0, 0>>),
        MakePairs(Tetra, RotZ90, 1, <<0, 0, 0>>),
        MakePairs(Segment, RotZ90, 1, <<0, 50, 0>>),
        MakePairs(Line, I3, 1, <<100, 0, 0>>) >>

\* The rows the user of SpecSync types or finds saved
PairSets == 1..2

panoPts(pts) == [i \in 1..Len(pts) |-> pts[i].pano]
revitPts(pts) == [i \in 1..Len(pts) |-> pts[i].revit]

\* applyCalibration(pairs) of SplitPane and the load effects of the viewers
Calibrations ==
  [k \in 1..Len(PairLists) |->
    calculateCalibration(panoPts(PairLists[k]), revitPts(PairLists[k]))]

calibrationOf(k) == Calibrations[k]

(***************************************************************************)
(* utils/camera_transformation (listed in README.md) and the THREE         *)
(* quaternion operations the viewers use, in fixed point.                  *)
(***************************************************************************)
QUAT_TRANSFORM == <<6668, -945, -20, 7392>>
pitchDown90 == <<7071, 0, 0, 7071>>
YAW_MINUS_90 == <<0, 10000, 0, 0>>     \* setFromAxisAngle((0,1,0), Math.PI)

qMul(a, b) ==
  << (a[4] * b[1] + a[1] * b[4] + a[2] * b[3] - a[3] * b[2]) \div 10000,
     (a[4] * b[2] - a[1] * b[3] + a[2] * b[4] + a[3] * b[1]) \div 10000,
     (a[4] * b[3] + a[1] * b[2] - a[2] * b[1] + a[3] * b[4]) \div 10000,
     (a[4] * b[4] - a[1] * b[1] - a[2] * b[2] - a[3] * b[3]) \div 10000 >>

qNormalize(c) ==
  LET m == isqrt(c[1] * c[1] + c[2] * c[2] + c[3] * c[3] + c[4] * c[4])
  IN IF m = 0 THEN QuatNaN
     ELSE Quat(<<(c[1] * 10000) \div m, (c[2] * 10000) \div m,
                 (c[3] * 10000) \div m, (c[4] * 10000) \div m>>)

qInverse(c) ==
  LET len2 == (c[1] * c[1] + c[2] * c[2] + c[3] * c[3] + c[4] * c[4]) \div 10000
  IN <<(-c[1] * 10000) \div len2, (-c[2] * 10000) \div len2,
       (-c[3] * 10000) \div len2, (c[4] * 10000) \div len2>>

transformQuaternion(q) ==
  IF q.nan THEN QuatNaN ELSE qNormalize(qMul(QUAT_TRANSFORM, q.c))

reverseTransform(q) ==
  IF q.nan THEN QuatNaN ELSE qNormalize(qMul(qInverse(QUAT_TRANSFORM), q.c))

\* THREE.Quaternion.multiply and .normalize
multiply(q, c) == IF q.nan THEN QuatNaN ELSE Quat(qMul(q.c, c))
normalize(q) == IF q.nan THEN QuatNaN ELSE qNormalize(q.c)

Q_180_Z == <<0, 0, 10000, 0>>

\* transformQuaternionMirrored, step 2: the half turn applied to the result
flip180Z(normalResult) ==
  IF normalResult.nan THEN QuatNaN ELSE qNormalize(qMul(Q_180_Z, normalResult.c))

transformQuaternionMirrored(q) == Let(transformQuaternion(q), LAMBDA r : flip180Z(r))

forgeToPanoQuaternion(q) ==
  IF q.nan THEN QuatNaN
  ELSE Let(qNormalize(qMul(qInverse(QUAT_TRANSFORM), q.c)), LAMBDA step1 :
       Let(qNormalize(qMul(qInverse(pitchDown90), step1.c)), LAMBDA step2 :
         qNormalize(qMul(qInverse(Q_180_Z), step2.c))))

(***************************************************************************)
(* Constants of the viewers.                                               *)
(***************************************************************************)
posNoise        == 100     \* 0.01, ForgeViewer onCameraChange
quatNoise       == 10      \* 0.001, ForgeViewer onCameraChange
forgeTokenDelay == 150     \* ms, ForgeViewer token timer
panoTokenDelay  == 100     \* ms, PathCameraExplorer token timer
debounceDelay   == 100     \* ms, debouncedSync
sourceDelay     == 300     \* ms, the source timer of debouncedSync
PATH_HEIGHT     == 0

(***************************************************************************)
(* The panorama path after the dataset has loaded: dataRef (raw points)    *)
(* and cameraPathRef (conditioned points).  Pano space has y up.           *)
(***************************************************************************)
dataRef == << <<0, 16000, 0>>, <<20000, 16000, 0>> >>
cameraPathRef == << <<0, 16000, 0>>, <<20000, 16000, 100>> >>

\* Squared distance in centimetres (as the effect computes it in metres).
dist2(p, panoPos) ==
  LET dx == (p[1] - panoPos[1]) \div 100
      dy == (p[2] - panoPos[2]) \div 100
      dz == (p[3] - panoPos[3]) \div 100
  IN dx * dx + dy * dy + dz * dz

\* Mutant of forEachClosest: `dist <= minDist`.
RECURSIVE forEachClosestOrEqual(_, _, _, _, _)
forEachClosestOrEqual(points, panoPos, i, minDist, closest) ==
  IF i > Len(points) THEN closest
  ELSE Let(dist2(points[i], panoPos), LAMBDA dist :
         IF minDist = <<>> \/ dist <= minDist[1]
         THEN forEachClosestOrEqual(points, panoPos, i + 1, <<dist>>, i)
         ELSE forEachClosestOrEqual(points, panoPos, i + 1, minDist, closest))

\* points.forEach((p, i) => { if (dist < minDist) { minDist = dist;
\* closestIdx = i } }) from point i on.  minDist is <<>> for Infinity; the
\* indices are those of the sequence, one more than the code's.
RECURSIVE forEachClosest(_, _, _, _, _)
forEachClosest(points, panoPos, i, minDist, closest) ==
  IF i > Len(points) THEN closest
  ELSE Let(dist2(points[i], panoPos), LAMBDA dist :
         IF minDist = <<>> \/ dist < minDist[1]
         THEN forEachClosest(points, panoPos, i + 1, <<dist>>, i)
         ELSE forEachClosest(points, panoPos, i + 1, minDist, closest))

\* let closestIdx = 0; let minDist = Infinity; points.forEach(...)
closestIdx(points, panoPos) == forEachClosest(points, panoPos, 1, <<>>, 1)

(***************************************************************************)
(* Timers (setTimeout): a list in registration order.  The browser runs    *)
(* the timer with the earliest due time, the earlier registered first.     *)
(***************************************************************************)
\* Mutant of setTimeout: the timer is not registered.
setTimeoutDropped(timers, kind, due, token) == timers

setTimeout(timers, kind, due, token) ==
  Append(timers, [kind |-> kind, due |-> due, token |-> token])

clearTimeout(timers, kind) == SelectSeq(timers, LAMBDA x : x.kind # kind)

RemoveAt(timers, i) == SubSeq(timers, 1, i - 1) \o SubSeq(timers, i + 1, Len(timers))

NextDue(timers, i, t) ==
  /\ timers[i].due <= t
  /\ \A j \in 1..Len(timers) :
       j # i => \/ timers[j].due > timers[i].due
                \/ (timers[j].due = timers[i].due /\ j > i)

\* Math.random(): a token no live reference holds.
freshToken(tok, timers, kind) ==
  CHOOSE i \in 1..(Len(timers) + 2) :
    /\ i # tok
    /\ \A k \in 1..Len(timers) : ~(timers[k].kind = kind /\ timers[k].token = i)
    /\ \A j \in 1..(i - 1) :
         j = tok \/ \E k \in 1..Len(timers) : timers[k].kind = kind /\ timers[k].token = j

(***************************************************************************)
(* The components after mount, with the Forge viewer ready and the         *)
(* dataset loaded.  `saved` is the set of point pairs localStorage held    *)
(* at mount (0: none); each viewer computed its calibration from it once.  *)
(* token 0 is null.                                                        *)
(***************************************************************************)
loadCalibration(saved) == IF saved = 0 THEN NULL ELSE calibrationOf(saved)

InitForge(saved) ==
  [ calibration |-> loadCalibration(saved),
    lastProgrammaticTokenRef |-> 0,
    camera |-> [pos |-> <<696000, 936000, 59100>>, quat |-> Quat(<<0, 7071, 0, 7071>>)],
    cameraEvent |-> FALSE,
    lastCameraState |-> NULL,
    effectPending |-> FALSE ]

InitPano(saved, loop) ==
  [ calibrationRef |-> loadCalibration(saved),
    lastProgrammaticTokenPano |-> 0,
    pathIndexRef |-> 1,
    currentPOVRef |-> Quat(<<0, 0, 0, 10000>>),
    isDragging |-> FALSE,
    lastKeyRef |-> NULL,
    loopMounted |-> loop,
    effectPending |-> FALSE ]

InitApp(saved) == [ localStorage |-> saved, pointPairs |-> saved, timers |-> <<>> ]

(***************************************************************************)
(* The running system as one value, and its commit.                        *)
(***************************************************************************)
Sys == [store |-> store, closure |-> closure, frames |-> frames]

Commit(s) ==
  /\ store' = s.store
  /\ closure' = s.closure
  /\ frames' = s.frames

(***************************************************************************)
(* History.  adoptSeq counts pose adoptions (accepted smooth syncs,        *)
(* instant applies, floor clicks); chainGen is adoptSeq when the running   *)
(* interpolation was started; lastAccepted is the last accepted smooth     *)
(* report.  applied is the calibration the user last applied (or reset);   *)
(* progLive[B] says a programmatic update that follows an accepted report  *)
(* of the other viewer has been applied to viewer B and B's token is still *)
(* live; userMoved[B] says the user moved B after the other viewer's last  *)
(* accepted report.                                                        *)
(***************************************************************************)
NoOp ==
  [ name |-> "init", viewer |-> "none", pos |-> NULL, quat |-> NULL,
    smooth |-> FALSE, publish |-> FALSE, accepted |-> FALSE,
    midflight |-> FALSE, isForge |-> FALSE, ran |-> FALSE, e |-> 0, t |-> 0,
    tokenLive |-> FALSE, transformed |-> FALSE, calib |-> NULL, direct |-> {} ]

InitHist ==
  [ adoptSeq |-> 0, chainGen |-> 0,
    lastAccepted |-> [viewer |-> "none", pos |-> NULL, quat |-> NULL],
    applied |-> [done |-> FALSE, calib |-> NULL],
    progLive |-> [pano |-> FALSE, forge |-> FALSE],
    userMoved |-> [pano |-> FALSE, forge |-> FALSE] ]

HistSmooth(h, viewer, accepted, pos, quat) ==
  IF accepted
  THEN [h EXCEPT !.adoptSeq = @ + 1,
                 !.chainGen = h.adoptSeq + 1,
                 !.lastAccepted = [viewer |-> viewer, pos |-> pos, quat |-> quat]]
  ELSE h

HistInstant(h) == [h EXCEPT !.adoptSeq = @ + 1]

(***************************************************************************)
(* Specification Spec: the store driven by an arbitrary client.  Every     *)
(* store action may be called with any pose, animation ticks run when the  *)
(* browser delivers them, and the clock advances.                          *)
(***************************************************************************)
Init ==
  /\ store = InitStore
  /\ closure = InitClosure
  /\ frames = {}
  /\ now = 0
  /\ frameTime = -1
  /\ three \in {"modern", "legacy"}
  /\ forge = InitForge(0)
  /\ pano = InitPano(0, FALSE)
  /\ app = InitApp(0)
  /\ nOps = 0
  /\ lastOp = NoOp
  /\ hist = InitHist

\* A client call: s2 is the system after it, h2 the history after it.
Client(op, s2, h2) ==
  /\ nOps' = nOps + 1
  /\ Commit(s2)
  /\ lastOp' = [op EXCEPT !.midflight = frames # {}]
  /\ hist' = h2
  /\ UNCHANGED <<now, frameTime, three, forge, pano, app>>

Call(name, viewer, p, accepted) ==
  [NoOp EXCEPT !.name = name, !.viewer = viewer, !.pos = p.pos, !.quat = p.quat,
               !.accepted = accepted]

SmoothSyncPano ==
  /\ nOps < MaxOps
  /\ \E p \in Poses :
    LET acc == changedPano(store, p.pos, p.quat)
    IN Client(Call("smoothSyncPano", "pano", p, acc),
              smoothSyncPano(Sys, p.pos, p.quat, now),
              HistSmooth(hist, "pano", acc, p.pos, p.quat))

SmoothSyncForge ==
  /\ nOps < MaxOps
  /\ \E p \in Poses :
    LET acc == changedForge(store, p.pos, p.quat)
    IN Client(Call("smoothSyncForge", "forge", p, acc),
              smoothSyncForge(Sys, p.pos, p.quat, now),
              HistSmooth(hist, "forge", acc, p.pos, p.quat))

FromPanoCam ==
  /\ nOps < MaxOps
  /\ \E p \in Poses :
    Client(Call("fromPanoCam", "pano", p,
                ~(vectorEqual(p.pos, closure.prevPanoPos) /\ quatEqual(p.quat, closure.prevPanoQuat))),
           fromPanoCam(Sys, p.pos, p.quat, now), hist)

FromForgeCam ==
  /\ nOps < MaxOps
  /\ \E p \in Poses :
    Client(Call("fromForgeCam", "forge", p,
                ~(vectorEqual(p.pos, closure.prevForgePos) /\ quatEqual(p.quat, closure.prevForgeQuat))),
           fromForgeCam(Sys, p.pos, p.quat, now), hist)

FromPanoPosition ==
  /\ nOps < MaxOps
  /\ \E p \in Poses :
    Client(Call("fromPanoPosition", "pano", p, ~vectorEqual(p.pos, closure.prevPanoPos)),
           fromPanoPosition(Sys, p.pos, now), hist)

FromForgePosition ==
  /\ nOps < MaxOps
  /\ \E p \in Poses :
    Client(Call("fromForgePosition", "forge", p, ~vectorEqual(p.pos, closure.prevForgePos)),
           fromForgePosition(Sys, p.pos, now), hist)

SetPanoCam ==
  /\ nOps < MaxOps
  /\ \E p \in Poses :
    Client(Call("setPanoCam", "pano", p, FALSE), setPanoCam(Sys, p.pos, p.quat), hist)

SetForgeCam ==
  /\ nOps < MaxOps
  /\ \E p \in Poses :
    Client(Call("setForgeCam", "forge", p, FALSE), setForgeCam(Sys, p.pos, p.quat), hist)

SetPanoPosition ==
  /\ nOps < MaxOps
  /\ \E p \in Poses :
    Client(Call("setPanoPosition", "pano", p, FALSE), setPanoPosition(Sys, p.pos), hist)

SetForgePosition ==
  /\ nOps < MaxOps
  /\ \E p \in Poses :
    Client(Call("setForgePosition", "forge", p, FALSE), setForgePosition(Sys, p.pos), hist)

ApplyPanoPose ==
  /\ nOps < MaxOps
  /\ \E p \in Poses, smooth \in BOOLEAN, publish \in BOOLEAN :
    LET acc == IF smooth THEN changedPano(store, p.pos, p.quat) ELSE publish
    IN Client([Call("applyPanoPose", "pano", p, acc) EXCEPT !.smooth = smooth, !.publish = publish],
              applyPanoPose(Sys, p.pos, p.quat, smooth, publish, now),
              IF smooth THEN HistSmooth(hist, "pano", acc, p.pos, p.quat)
              ELSE HistInstant(hist))

ApplyForgePose ==
  /\ nOps < MaxOps
  /\ \E p \in Poses, smooth \in BOOLEAN, publish \in BOOLEAN :
    LET acc == IF smooth THEN changedForge(store, p.pos, p.quat) ELSE publish
    IN Client([Call("applyForgePose", "forge", p, acc) EXCEPT !.smooth = smooth, !.publish = publish],
              applyForgePose(Sys, p.pos, p.quat, smooth, publish, now),
              IF smooth THEN HistSmooth(hist, "forge", acc, p.pos, p.quat)
              ELSE HistInstant(hist))

ForgeReport ==
  /\ nOps < MaxOps
  /\ \E p \in Poses :
    LET acc == changedForge(setForgeCam(Sys, p.pos, p.quat).store, p.pos, p.quat)
    IN Client(Call("forgeReport", "forge", p, acc),
              forgeReport(Sys, p.pos, p.quat, now),
              HistSmooth(hist, "forge", acc, p.pos, p.quat))

PanoReport ==
  /\ nOps < MaxOps
  /\ \E p \in Poses :
    LET acc == changedPano(setPanoCam(Sys, p.pos, p.quat).store, p.pos, p.quat)
    IN Client(Call("panoReport", "pano", p, acc),
              panoReport(Sys, p.pos, p.quat, now),
              HistSmooth(hist, "pano", acc, p.pos, p.quat))

PushFloorClick ==
  /\ nOps < MaxOps
  /\ \E p \in Poses :
    Client(Call("pushFloorClick", "none", p, TRUE), pushFloorClick(Sys, p.pos, now),
           HistInstant(hist))

SetSource ==
  /\ nOps < MaxOps
  /\ \E src \in {"pano", "forge", "null"} :
    Client([NoOp EXCEPT !.name = "setSource", !.viewer = src], setSource(Sys, src), hist)

SetIsSyncing ==
  /\ nOps < MaxOps
  /\ \E v \in BOOLEAN :
    Client([NoOp EXCEPT !.name = "setIsSyncing"], setIsSyncing(Sys, v), hist)

StartSync ==
  /\ nOps < MaxOps
  /\ Client([NoOp EXCEPT !.name = "startSync"], startSync(Sys), hist)

EndSync ==
  /\ nOps < MaxOps
  /\ Client([NoOp EXCEPT !.name = "endSync"], endSync(Sys), hist)

ResetSyncCount ==
  /\ nOps < MaxOps
  /\ Client([NoOp EXCEPT !.name = "resetSyncCount"], resetSyncCount(Sys), hist)

\* The browser runs one pending animation-frame callback.  Two frames never
\* share a clock value: frames are at least a display refresh apart.
Tick ==
  \E f \in frames :
    /\ frameTime < now
    /\ frameTime' = now
    /\ Commit(animateSync([Sys EXCEPT !.frames = @ \ {f}], f.isForge, now))
    /\ lastOp' = [NoOp EXCEPT !.name = "animateSync",
                              !.viewer = IF f.isForge THEN "forge" ELSE "pano",
                              !.isForge = f.isForge,
                              !.ran = store.isAnimating /\ ~store.isSyncing,
                              !.e = now - store.syncStartTime,
                              !.t = clampT(now - store.syncStartTime)]
    /\ UNCHANGED <<now, three, forge, pano, app, nOps, hist>>

AdvanceTime ==
  /\ now < MaxTime
  /\ now' = now + TimeStep
  /\ lastOp' = [NoOp EXCEPT !.name = "time"]
  /\ UNCHANGED <<store, closure, frames, frameTime, three, forge, pano, app, nOps, hist>>

Next ==
  \/ SmoothSyncPano
  \/ SmoothSyncForge
  \/ FromPanoCam
  \/ FromForgeCam
  \/ FromPanoPosition
  \/ FromForgePosition
  \/ SetPanoCam
  \/ SetForgeCam
  \/ SetPanoPosition
  \/ SetForgePosition
  \/ ApplyPanoPose
  \/ ApplyForgePose
  \/ ForgeReport
  \/ PanoReport
  \/ PushFloorClick
  \/ SetSource
  \/ SetIsSyncing
  \/ StartSync
  \/ EndSync
  \/ ResetSyncCount
  \/ Tick
  \/ AdvanceTime

Spec == Init /\ [][Next]_vars

(***************************************************************************)
(* Specification SpecSync: the two viewers and the calibration editor      *)
(* drive the store.  The user moves either camera and edits, applies or    *)
(* resets the calibration; React effects, camera events, timers and        *)
(* animation ticks run in every order the browser allows.                  *)
(***************************************************************************)
Other(v) == IF v = "pano" THEN "forge" ELSE "pano"

\* Camera poses the user gives the Forge viewer, in world coordinates.
ForgePoses ==
  { [pos |-> <<100000, 16000, 59100>>, quat |-> Quat(<<0, 0, 0, 10000>>)],
    [pos |-> <<80000, 16000, 59100>>, quat |-> Quat(<<0, 7071, 0, 7071>>)] }

\* Orientations the user drags the panorama to.
DragQuats == { Quat(<<0, 0, 0, 10000>>), Quat(<<0, 7071, 0, 7071>>) }

InitSync ==
  \E saved \in {0, 1}, loop \in BOOLEAN :
    /\ store = [InitStore EXCEPT !.calibration = loadCalibration(saved)]
    /\ closure = InitClosure
    /\ frames = {}
    /\ now = 0
    /\ frameTime = -1
    /\ three \in {"modern", "legacy"}
    /\ forge = InitForge(saved)
    /\ pano = InitPano(saved, loop)
    /\ app = InitApp(saved)
    /\ nOps = 0
    /\ lastOp = NoOp
    /\ hist = InitHist

\* React flushes the effects of a store update before the page handles the
\* next event, timer or animation frame.
EffectsFlushed == ~forge.effectPending /\ ~pano.effectPending

\* The user orbits or pans the Forge camera; the viewer will fire
\* CAMERA_CHANGE_EVENT.
ForgeUserMove ==
  /\ nOps < MaxOps
  /\ EffectsFlushed
  /\ \E p \in ForgePoses :
       forge' = [forge EXCEPT !.camera = p, !.cameraEvent = TRUE]
  /\ nOps' = nOps + 1
  /\ hist' = [hist EXCEPT !.userMoved.forge = TRUE]
  /\ lastOp' = [NoOp EXCEPT !.name = "forgeUserMove", !.viewer = "forge"]
  /\ UNCHANGED <<store, closure, frames, now, frameTime, three, pano, app>>

\* ForgeViewer onCameraChange
OnCameraChange ==
  /\ forge.cameraEvent
  /\ EffectsFlushed
  /\ LET pos  == forge.camera.pos
         quat == forge.camera.quat
         last == forge.lastCameraState
         posChanged ==
           \/ last.shape = "null"
           \/ \E i \in 1..3 : Abs(last.pos[i] - pos[i]) > posNoise
         quatChanged ==
           \/ last.shape = "null"
           \/ /\ ~last.quat.nan
              /\ ~quat.nan
              /\ \E i \in 1..4 : Abs(last.quat.c[i] - quat.c[i]) > quatNoise
         accepted == forge.lastProgrammaticTokenRef = 0 /\ (posChanged \/ quatChanged)
     IN /\ Commit(IF accepted THEN forgeReport(Sys, Arr(pos), quat, now) ELSE Sys)
        /\ forge' = [forge EXCEPT
                       !.cameraEvent = FALSE,
                       !.lastCameraState =
                          IF accepted THEN [shape |-> "state", pos |-> pos, quat |-> quat]
                          ELSE @]
        /\ pano' = [pano EXCEPT !.effectPending = @ \/ accepted]
        /\ hist' = IF accepted THEN [hist EXCEPT !.userMoved.pano = FALSE] ELSE hist
        /\ lastOp' = [NoOp EXCEPT !.name = "onCameraChange", !.viewer = "forge",
                                  !.accepted = accepted,
                                  !.tokenLive = forge.lastProgrammaticTokenRef # 0,
                                  !.direct = IF accepted
                                             THEN directWrites(Sys, [source |-> "forge"])
                                             ELSE {}]
  /\ UNCHANGED <<now, frameTime, three, app, nOps>>

\* ForgeViewer main sync effect, pano -> viewer (deps: panoCam, isSyncing,
\* calibration).
ForgeSyncEffect ==
  /\ forge.effectPending
  /\ LET calibration == forge.calibration
         panoCam == store.panoCam
         run == /\ calibration.shape # "null"
                /\ ~store.isSyncing
                /\ panoCam.pos.shape = "arr"
                /\ ~panoCam.quat.nan
         token == freshToken(forge.lastProgrammaticTokenRef, app.timers, "forgeToken")
         f == panoToForge(panoCam.pos.c, calibration)
         q == multiply(transformQuaternion(panoCam.quat), pitchDown90)
     IN /\ forge' = IF run
                    THEN [forge EXCEPT
                            !.effectPending = FALSE,
                            !.lastProgrammaticTokenRef = token,
                            !.camera = [pos |-> <<f[1], f[2], forge.camera.pos[3]>>,
                                        quat |-> q],
                            !.cameraEvent = TRUE]
                    ELSE [forge EXCEPT !.effectPending = FALSE]
        /\ app' = IF run
                  THEN [app EXCEPT !.timers =
                          setTimeout(@, "forgeToken", now + forgeTokenDelay, token)]
                  ELSE app
        /\ Commit(IF run THEN setIsSyncing(setIsSyncing(Sys, TRUE), FALSE) ELSE Sys)
        /\ hist' = IF run
                   THEN [hist EXCEPT !.progLive.forge = (store.source = "pano")]
                   ELSE hist
        /\ lastOp' = [NoOp EXCEPT !.name = "forgeSyncEffect", !.viewer = "forge",
                                  !.transformed = run, !.calib = calibration]
  /\ UNCHANGED <<now, frameTime, three, pano, nOps>>

\* PathCameraExplorer Forge -> Pano sync effect (deps: forgeCam).
PanoSyncEffect ==
  /\ pano.effectPending
  /\ LET calib == pano.calibrationRef
         forgeCam == store.forgeCam
         run == ~store.isSyncing /\ calib.shape # "null"
         token == freshToken(pano.lastProgrammaticTokenPano, app.timers, "panoToken")
         idx == IF forgeCam.pos.shape = "arr"
                THEN closestIdx(cameraPathRef, forgeToPano(forgeCam.pos.c, calib))
                ELSE 1
         panoQuat == normalize(multiply(reverseTransform(forgeCam.quat), YAW_MINUS_90))
         p == cameraPathRef[idx]
         s2 == smoothSyncPano(setCurrentPanoIndex(Sys, idx - 1),
                              Arr(<<p[1], PATH_HEIGHT, p[3]>>), panoQuat, now)
     IN /\ pano' = IF run
                   THEN [pano EXCEPT
                           !.effectPending = FALSE,
                           !.lastProgrammaticTokenPano = token,
                           !.pathIndexRef = idx,
                           !.currentPOVRef = panoQuat]
                   ELSE [pano EXCEPT !.effectPending = FALSE]
        /\ app' = IF run
                  THEN [app EXCEPT !.timers =
                          setTimeout(@, "panoToken", now + panoTokenDelay, token)]
                  ELSE app
        /\ Commit(IF run THEN s2 ELSE Sys)
        /\ hist' = IF run
                   THEN [hist EXCEPT
                           !.progLive.pano = (store.source = "forge"),
                           !.userMoved.forge =
                              IF s2.store.syncCount # store.syncCount THEN FALSE ELSE @]
                   ELSE hist
        /\ lastOp' = [NoOp EXCEPT !.name = "panoSyncEffect", !.viewer = "pano",
                                  !.transformed = run, !.calib = calib]
  /\ UNCHANGED <<now, frameTime, three, forge, nOps>>

\* PathCameraExplorer onDown / onUp
OnDown ==
  /\ nOps < MaxOps
  /\ EffectsFlushed
  /\ nOps' = nOps + 1
  /\ pano' = [pano EXCEPT !.isDragging = TRUE]
  /\ lastOp' = [NoOp EXCEPT !.name = "onDown", !.viewer = "pano"]
  /\ UNCHANGED <<store, closure, frames, now, frameTime, three, forge, app, hist>>

OnUp ==
  /\ pano.isDragging
  /\ EffectsFlushed
  /\ pano' = [pano EXCEPT !.isDragging = FALSE]
  /\ lastOp' = [NoOp EXCEPT !.name = "onUp", !.viewer = "pano"]
  /\ UNCHANGED <<store, closure, frames, now, frameTime, three, forge, app, nOps, hist>>

\* PathCameraExplorer onMove: yaw/pitch += delta; NaN + delta stays NaN.
OnMove ==
  /\ nOps < MaxOps
  /\ EffectsFlushed
  /\ \E d \in DragQuats :
       LET q == IF pano.currentPOVRef.nan THEN QuatNaN ELSE d
           position == dataRef[pano.pathIndexRef]
       IN /\ pano' = IF pano.isDragging THEN [pano EXCEPT !.currentPOVRef = q] ELSE pano
          /\ Commit(IF pano.isDragging THEN setPanoCam(Sys, Arr(position), q) ELSE Sys)
          /\ forge' = [forge EXCEPT !.effectPending = @ \/ pano.isDragging]
          /\ hist' = IF pano.isDragging THEN [hist EXCEPT !.userMoved.pano = TRUE] ELSE hist
          /\ lastOp' = [NoOp EXCEPT !.name = "onMove", !.viewer = "pano",
                                    !.accepted = pano.isDragging,
                                    !.tokenLive = pano.lastProgrammaticTokenPano # 0]
  /\ nOps' = nOps + 1
  /\ UNCHANGED <<now, frameTime, three, app>>

\* PathCameraExplorer move(delta)
Move ==
  /\ nOps < MaxOps
  /\ EffectsFlushed
  /\ \E delta \in {-1, 1} :
       LET raw == pano.pathIndexRef + delta
           newIdx == IF raw < 1 THEN 1
                     ELSE IF raw > Len(cameraPathRef) THEN Len(cameraPathRef) ELSE raw
           moved == newIdx # pano.pathIndexRef
       IN /\ pano' = [pano EXCEPT !.pathIndexRef = newIdx]
          /\ Commit(IF moved
                    THEN setCurrentPanoIndex(
                           setPanoCam(Sys, Arr(dataRef[newIdx]), pano.currentPOVRef),
                           newIdx - 1)
                    ELSE Sys)
          /\ forge' = [forge EXCEPT !.effectPending = @ \/ moved]
          /\ hist' = IF moved THEN [hist EXCEPT !.userMoved.pano = TRUE] ELSE hist
          /\ lastOp' = [NoOp EXCEPT !.name = "move", !.viewer = "pano",
                                    !.accepted = moved,
                                    !.tokenLive = pano.lastProgrammaticTokenPano # 0]
  /\ nOps' = nOps + 1
  /\ UNCHANGED <<now, frameTime, three, app>>

\* PathCameraExplorer rafLoop: the camera key changed, (re)start the debounce.
panoKey == [shape |-> "key", idx |-> pano.pathIndexRef, pov |-> pano.currentPOVRef]

RafLoop ==
  /\ pano.loopMounted
  /\ EffectsFlushed
  /\ panoKey # pano.lastKeyRef
  /\ pano' = [pano EXCEPT !.lastKeyRef = panoKey]
  /\ app' = [app EXCEPT !.timers =
               setTimeout(clearTimeout(@, "debounce"), "debounce", now + debounceDelay, 0)]
  /\ lastOp' = [NoOp EXCEPT !.name = "rafLoop", !.viewer = "pano"]
  /\ UNCHANGED <<store, closure, frames, now, frameTime, three, forge, nOps, hist>>

\* PathCameraExplorer debouncedSync: the debounce timer fires.
DebouncedSync ==
  \E i \in 1..Len(app.timers) :
    /\ EffectsFlushed
    /\ app.timers[i].kind = "debounce"
    /\ NextDue(app.timers, i, now)
    /\ LET skip == pano.lastProgrammaticTokenPano # 0
           position == dataRef[pano.pathIndexRef]
           q == pano.currentPOVRef
           s2 == panoReport(Sys, Arr(position), q, now)
       IN /\ Commit(IF skip THEN Sys ELSE s2)
          /\ app' = [app EXCEPT !.timers =
                       IF skip THEN RemoveAt(@, i)
                       ELSE setTimeout(RemoveAt(@, i), "source", now + sourceDelay, 0)]
          /\ forge' = [forge EXCEPT !.effectPending = @ \/ ~skip]
          /\ hist' = IF skip THEN hist ELSE [hist EXCEPT !.userMoved.forge = FALSE]
          /\ lastOp' = [NoOp EXCEPT !.name = "debouncedSync", !.viewer = "pano",
                                    !.accepted = ~skip, !.tokenLive = skip,
                                    !.direct = IF skip THEN {}
                                               ELSE directWrites(Sys, [source |-> "pano"])]
    /\ UNCHANGED <<now, frameTime, three, pano, nOps>>

\* setTimeout(() => setState({ source: "pano" }), 300) of debouncedSync
SourceTimeout ==
  \E i \in 1..Len(app.timers) :
    /\ EffectsFlushed
    /\ app.timers[i].kind = "source"
    /\ NextDue(app.timers, i, now)
    /\ Commit(setState(Sys, [source |-> "pano"]))
    /\ app' = [app EXCEPT !.timers = RemoveAt(@, i)]
    /\ lastOp' = [NoOp EXCEPT !.name = "sourceTimeout", !.viewer = "pano",
                              !.direct = directWrites(Sys, [source |-> "pano"])]
    /\ UNCHANGED <<now, frameTime, three, forge, pano, nOps, hist>>

\* Mutant of clearToken: the timer clears whatever token the ref holds.
clearTokenAlways(current, token) == 0

\* if (ref.current === token) ref.current = null: the value of ref.current
\* after the token timer of the update that drew `token` has run
clearToken(current, token) == IF current = token THEN 0 ELSE current

\* ForgeViewer: the token timer of the sync effect
ForgeTokenExpiry ==
  \E i \in 1..Len(app.timers) :
    /\ EffectsFlushed
    /\ app.timers[i].kind = "forgeToken"
    /\ NextDue(app.timers, i, now)
    /\ LET same == forge.lastProgrammaticTokenRef = app.timers[i].token
       IN /\ forge' = [forge EXCEPT !.lastProgrammaticTokenRef = clearToken(@, app.timers[i].token)]
          /\ hist' = IF same THEN [hist EXCEPT !.progLive.forge = FALSE] ELSE hist
    /\ app' = [app EXCEPT !.timers = RemoveAt(@, i)]
    /\ lastOp' = [NoOp EXCEPT !.name = "forgeTokenExpiry", !.viewer = "forge"]
    /\ UNCHANGED <<store, closure, frames, now, frameTime, three, pano, nOps>>

\* PathCameraExplorer: the token timer of the sync effect
PanoTokenExpiry ==
  \E i \in 1..Len(app.timers) :
    /\ EffectsFlushed
    /\ app.timers[i].kind = "panoToken"
    /\ NextDue(app.timers, i, now)
    /\ LET same == pano.lastProgrammaticTokenPano = app.timers[i].token
       IN /\ pano' = [pano EXCEPT !.lastProgrammaticTokenPano = clearToken(@, app.timers[i].token)]
          /\ hist' = IF same THEN [hist EXCEPT !.progLive.pano = FALSE] ELSE hist
    /\ app' = [app EXCEPT !.timers = RemoveAt(@, i)]
    /\ lastOp' = [NoOp EXCEPT !.name = "panoTokenExpiry", !.viewer = "pano"]
    /\ UNCHANGED <<store, closure, frames, now, frameTime, three, forge, nOps>>

\* An animation tick; a pose it writes re-runs the other viewer's effect.
SyncTick ==
  \E f \in frames :
    /\ EffectsFlushed
    /\ frameTime < now
    /\ frameTime' = now
    /\ LET s2 == animateSync([Sys EXCEPT !.frames = @ \ {f}], f.isForge, now)
       IN /\ Commit(s2)
          /\ forge' = [forge EXCEPT !.effectPending = @ \/ s2.store.panoCam # store.panoCam]
          /\ pano' = [pano EXCEPT !.effectPending = @ \/ s2.store.forgeCam # store.forgeCam]
    /\ lastOp' = [NoOp EXCEPT !.name = "animateSync",
                              !.viewer = IF f.isForge THEN "forge" ELSE "pano",
                              !.isForge = f.isForge,
                              !.ran = store.isAnimating /\ ~store.isSyncing,
                              !.e = now - store.syncStartTime,
                              !.t = clampT(now - store.syncStartTime)]
    /\ UNCHANGED <<now, three, app, nOps, hist>>

\* SplitPane updatePoint: the user types point pairs into the editor
\* (0: the rows are empty).
UpdatePoint ==
  /\ nOps < MaxOps
  /\ EffectsFlushed
  /\ \E k \in {0} \cup PairSets : app' = [app EXCEPT !.pointPairs = k]
  /\ nOps' = nOps + 1
  /\ lastOp' = [NoOp EXCEPT !.name = "updatePoint"]
  /\ UNCHANGED <<store, closure, frames, now, frameTime, three, forge, pano, hist>>

\* SplitPane handleApply: applyCalibration(valid); saveCalibration()
HandleApply ==
  /\ nOps < MaxOps
  /\ EffectsFlushed
  /\ nOps' = nOps + 1
  /\ LET ok == app.pointPairs # 0
         calibration == calibrationOf(app.pointPairs)
     IN /\ Commit(IF ok THEN setCalibration(Sys, calibration) ELSE Sys)
        /\ app' = IF ok THEN [app EXCEPT !.localStorage = app.pointPairs] ELSE app
        /\ hist' = IF ok THEN [hist EXCEPT !.applied = [done |-> TRUE, calib |-> calibration]]
                   ELSE hist
        /\ lastOp' = [NoOp EXCEPT !.name = "handleApply", !.accepted = ok]
  /\ UNCHANGED <<now, frameTime, three, forge, pano>>

\* SplitPane resetCalibration (confirmed)
ResetCalibration ==
  /\ nOps < MaxOps
  /\ EffectsFlushed
  /\ nOps' = nOps + 1
  /\ Commit(setCalibration(Sys, NULL))
  /\ app' = [app EXCEPT !.localStorage = 0, !.pointPairs = 0]
  /\ hist' = [hist EXCEPT !.applied = [done |-> TRUE, calib |-> NULL]]
  /\ lastOp' = [NoOp EXCEPT !.name = "resetCalibration", !.accepted = TRUE]
  /\ UNCHANGED <<now, frameTime, three, forge, pano>>

\* The clock advances once React has run its effects, the Forge viewer has
\* delivered its camera event, the panorama's frame loop has seen the camera
\* and every due timer has fired.
AdvanceSync ==
  /\ now < MaxTime
  /\ EffectsFlushed
  /\ ~forge.cameraEvent
  /\ ~(pano.loopMounted /\ panoKey # pano.lastKeyRef)
  /\ \A i \in 1..Len(app.timers) : app.timers[i].due > now
  /\ now' = now + TimeStep
  /\ lastOp' = [NoOp EXCEPT !.name = "time"]
  /\ UNCHANGED <<store, closure, frames, frameTime, three, forge, pano, app, nOps, hist>>

NextSync ==
  \/ ForgeUserMove
  \/ OnCameraChange
  \/ ForgeSyncEffect
  \/ PanoSyncEffect
  \/ OnDown
  \/ OnUp
  \/ OnMove
  \/ Move
  \/ RafLoop
  \/ DebouncedSync
  \/ SourceTimeout
  \/ ForgeTokenExpiry
  \/ PanoTokenExpiry
  \/ SyncTick
  \/ UpdatePoint
  \/ HandleApply
  \/ ResetCalibration
  \/ AdvanceSync

SpecSync == InitSync /\ [][NextSync]_vars

(***************************************************************************)
(* Specification LiveSync: SpecSync with the scheduling the browser and    *)
(* React guarantee.  A pending effect is flushed, a delivered camera event *)
(* is handled, the frame loop sees a camera change, a due timer fires, a   *)
(* requested animation frame is delivered and time passes; the user is     *)
(* not obliged to do anything.  The user acts until MaxTime; the clock,    *)
(* which stops at MaxTime in SpecSync, goes on for at most MaxDrain        *)
(* further steps while a timer or an animation frame is outstanding, so    *)
(* that what the last operation started can run to its end.  The           *)
(* specification follows the last operation of the user: all but one of    *)
(* the MaxOps operations have been made, and the user may be dragging the  *)
(* panorama.                                                               *)
(***************************************************************************)
InitLive ==
  \E saved \in {0, 1}, loop \in BOOLEAN, dragging \in BOOLEAN :
    /\ store = [InitStore EXCEPT !.calibration = loadCalibration(saved)]
    /\ closure = InitClosure
    /\ frames = {}
    /\ now = 0
    /\ frameTime = -1
    /\ three \in {"modern", "legacy"}
    /\ forge = InitForge(saved)
    /\ pano = [InitPano(saved, loop) EXCEPT !.isDragging = dragging]
    /\ app = InitApp(saved)
    /\ nOps = MaxOps - 1
    /\ lastOp = NoOp
    /\ hist = InitHist

Outstanding == app.timers # <<>> \/ frames # {}

AdvanceDrain ==
  /\ now >= MaxTime
  /\ now < MaxTime + MaxDrain * TimeStep
  /\ Outstanding
  /\ EffectsFlushed
  /\ ~forge.cameraEvent
  /\ ~(pano.loopMounted /\ panoKey # pano.lastKeyRef)
  /\ \A i \in 1..Len(app.timers) : app.timers[i].due > now
  /\ now' = now + TimeStep
  /\ lastOp' = [NoOp EXCEPT !.name = "time"]
  /\ UNCHANGED <<store, closure, frames, frameTime, three, forge, pano, app, nOps, hist>>

\* what the user does
UserStep ==
  \/ ForgeUserMove
  \/ OnDown
  \/ OnUp
  \/ OnMove
  \/ Move
  \/ UpdatePoint
  \/ HandleApply
  \/ ResetCalibration

NextLive ==
  \/ now <= MaxTime /\ UserStep
  \/ OnCameraChange
  \/ ForgeSyncEffect
  \/ PanoSyncEffect
  \/ RafLoop
  \/ DebouncedSync
  \/ SourceTimeout
  \/ ForgeTokenExpiry
  \/ PanoTokenExpiry
  \/ SyncTick
  \/ AdvanceSync
  \/ AdvanceDrain

\* PanoSyncEffect is enabled exactly when pano.effectPending holds and is the
\* one step that ends it, so that WF_vars(PanoSyncEffect) is the formula
\* []<>~pano.effectPending.
Scheduling ==
  /\ WF_vars(OnCameraChange)
  /\ WF_vars(ForgeSyncEffect)
  /\ []<>(~pano.effectPending)
  /\ WF_vars(RafLoop)
  /\ WF_vars(DebouncedSync)
  /\ WF_vars(SourceTimeout)
  /\ WF_vars(ForgeTokenExpiry)
  /\ WF_vars(PanoTokenExpiry)
  /\ WF_vars(SyncTick)
  /\ WF_vars(AdvanceSync \/ AdvanceDrain)

LiveSync == InitLive /\ [][NextLive]_vars /\ Scheduling

(***************************************************************************)
(* Specification LiveStore: Spec with the scheduling of the browser.  A    *)
(* requested animation frame is delivered and time passes; the client is   *)
(* under no obligation.                                                    *)
(***************************************************************************)
LiveStore == Init /\ [][Next]_vars /\ WF_vars(Tick) /\ WF_vars(AdvanceTime)

(***************************************************************************)
(* lib/pano_helpers.js and lib/kalman_filter.js: the conditioning of the   *)
(* camera path.  A path is a sequence of points, records with the fields   *)
(* x, y, z (fixed point, one unit is 0.0001) and the fields the code       *)
(* copies along (image_path, yaw, pitch).                                  *)
(*                                                                         *)
(* The matrices of the smoothing filter hold JavaScript numbers; a number  *)
(* is modelled exactly as the pair <<a, b>> of fractions that stands for   *)
(* a + b / pivotFloor, a fraction being <<numerator, denominator>> in      *)
(* lowest terms.  The second part appears when invert divides a row by     *)
(* the floor it substitutes for a vanishing pivot.  Two numbers with a     *)
(* second part are never multiplied for the matrices of this model; the    *)
(* operators yield a string in that case, which stops the evaluation.      *)
(***************************************************************************)
RECURSIVE gcd(_, _)
gcd(a, b) == IF b = 0 THEN a ELSE gcd(b, a % b)

\* the fraction n / d in lowest terms, d # 0
frac(n0, d0) ==
  Let(<<n0, d0>>, LAMBDA nd :
    IF nd[1] = 0 THEN <<0, 1>>
    ELSE Let(gcd(Abs(nd[1]), Abs(nd[2])) * (IF nd[2] < 0 THEN -1 ELSE 1), LAMBDA g :
           <<nd[1] \div g, nd[2] \div g>>))

fracAdd(p0, q0) ==
  Let(<<p0, q0, gcd(p0[2], q0[2])>>, LAMBDA a :
    frac(a[1][1] * (a[2][2] \div a[3]) + a[2][1] * (a[1][2] \div a[3]),
         (a[1][2] \div a[3]) * a[2][2]))

fracMul(p0, q0) ==
  Let(<<p0, q0>>, LAMBDA a :
    IF a[1][1] = 0 \/ a[2][1] = 0 THEN <<0, 1>>
    ELSE Let(<<gcd(Abs(a[1][1]), a[2][2]), gcd(Abs(a[2][1]), a[1][2])>>, LAMBDA g :
           frac((a[1][1] \div g[1]) * (a[2][1] \div g[2]),
                (a[1][2] \div g[2]) * (a[2][2] \div g[1]))))

Num(k) == << <<k, 1>>, <<0, 1>> >>

\* x - f * y
numSubMul(x0, f0, y0) ==
  Let(<<x0, f0, y0>>, LAMBDA a :
    LET x == a[1]
        f == a[2]
        y == a[3]
        neg(p) == <<-p[1], p[2]>>
    IN IF f[2][1] # 0 /\ y[2][1] # 0 THEN "inexpressible"
       ELSE << fracAdd(x[1], neg(fracMul(f[1], y[1]))),
               fracAdd(x[2], neg(fracAdd(fracMul(f[1], y[2]), fracMul(f[2], y[1])))) >>)

numAddMul(x0, f0, y0) == numSubMul(x0, << <<-f0[1][1], f0[1][2]>>, <<-f0[2][1], f0[2][2]>> >>, y0)

\* x / diag, where diag is the pivot invert divides by: `A[i][i] || 1e-12`,
\* replaced by 1e-12 when its magnitude is below 1e-12.  A fraction whose
\* denominator fits the model's integers is below 1e-12 only when it is 0.
numDivPivot(x0, pivot0) ==
  Let(<<x0, pivot0>>, LAMBDA a :
    LET x == a[1]
        pivot == a[2]
        inv(p) == IF p[1] < 0 THEN <<-p[2], -p[1]>> ELSE <<p[2], p[1]>>
    IN IF pivot[2][1] # 0 THEN "inexpressible"
       ELSE IF pivot[1][1] = 0
         THEN IF x[2][1] # 0 THEN "inexpressible" ELSE << <<0, 1>>, x[1] >>
         ELSE << fracMul(x[1], inv(pivot[1])), fracMul(x[2], inv(pivot[1])) >>)

transposeRows(M0) ==
  Let(M0, LAMBDA M :
    IF Len(M) = 0 THEN <<>>
    ELSE [i \in 1..Len(M[1]) |-> [r \in 1..Len(M) |-> M[r][i]]])

RECURSIVE numSum(_, _, _, _)
numSum(row, col, k, acc) ==
  IF k > Len(col) THEN acc
  ELSE numSum(row, col, k + 1, numAddMul(acc, row[k], col[k]))

multiplyRows(A0, B0) ==
  Let(<<A0, transposeRows(B0)>>, LAMBDA a :
    [i \in 1..Len(a[1]) |-> [j \in 1..Len(a[2]) |-> numSum(a[1][i], a[2][j], 1, Num(0))]])

\* the loop body of invert for the pivot i, on the pair <<A, I>>
pivotStep(AI0, i) ==
  Let(AI0, LAMBDA AI :
    Let(<< [j \in 1..Len(AI[1]) |-> numDivPivot(AI[1][i][j], AI[1][i][i])],
           [j \in 1..Len(AI[1]) |-> numDivPivot(AI[2][i][j], AI[1][i][i])] >>, LAMBDA rows :
      << [k \in 1..Len(AI[1]) |->
            IF k = i THEN rows[1]
            ELSE [j \in 1..Len(AI[1]) |-> numSubMul(AI[1][k][j], AI[1][k][i], rows[1][j])]],
         [k \in 1..Len(AI[1]) |->
            IF k = i THEN rows[2]
            ELSE [j \in 1..Len(AI[1]) |-> numSubMul(AI[2][k][j], AI[1][k][i], rows[2][j])]] >>))

RECURSIVE invertFrom(_, _)
invertFrom(AI0, i) ==
  Let(AI0, LAMBDA AI :
    IF i > Len(AI[1]) THEN AI[2] ELSE invertFrom(pivotStep(AI, i), i + 1))

invert(M0) ==
  Let(M0, LAMBDA M :
    IF Len(M) = 0 THEN <<>>
    ELSE invertFrom(<<M, [i \in 1..Len(M) |-> [j \in 1..Len(M) |->
                             IF i = j THEN Num(1) ELSE Num(0)]]>>, 1))

RECURSIVE pow(_, _)
pow(i, j) == IF j = 0 THEN 1 ELSE i * pow(i, j - 1)

\* the weights the filter applies around a sample: basis[half]
sgCoeffs(windowSize0, polyOrder) ==
  Let(IF windowSize0 % 2 = 0 THEN windowSize0 + 1 ELSE windowSize0, LAMBDA windowSize :
    Let([r \in 1..windowSize |-> [j \in 1..(polyOrder + 1) |->
           Num(pow(r - 1 - (windowSize \div 2), j - 1))]], LAMBDA A :
      Let(transposeRows(A), LAMBDA AT :
        Let(invert(multiplyRows(AT, A)), LAMBDA ATAinv :
          multiplyRows(multiplyRows(<<A[(windowSize \div 2) + 1]>>, ATAinv), AT)[1]))))

\* a / b rounded to the nearest integer, b > 0
roundDiv(a, b) == (2 * a + b) \div (2 * b)

RECURSIVE lcmDen(_, _)
lcmDen(coeffs, k) ==
  IF k > Len(coeffs) THEN 1
  ELSE Let(lcmDen(coeffs, k + 1), LAMBDA m :
         (m \div gcd(m, coeffs[k][1][2])) * coeffs[k][1][2])

RECURSIVE weighted(_, _, _, _)
weighted(w, col, k, acc) ==
  IF k > Len(w) THEN acc ELSE weighted(w, col, k + 1, acc + w[k] * col[k])

\* the loop of savitzkyGolay that applies the weights coeffs to the points; the
\* weights are brought to their common denominator first
smooth(points0, coeffs0) ==
  Let(<<points0, coeffs0, lcmDen(coeffs0, 1)>>, LAMBDA a :
    Let([k \in 1..Len(a[2]) |->
           IF a[2][k][2][1] # 0 THEN "inexpressible"
           ELSE a[2][k][1][1] * (a[3] \div a[2][k][1][2])], LAMBDA w :
      LET points == a[1]
          n      == Len(points)
          half   == Len(w) \div 2
          idx(i, k) == IF i + k < 1 THEN 1 ELSE IF i + k > n THEN n ELSE i + k
          s(i, f(_)) ==
            roundDiv(weighted(w, [k \in 1..Len(w) |-> f(points[idx(i, k - 1 - half)])], 1, 0),
                     a[3])
          px(p) == p.x
          py(p) == p.y
          pz(p) == p.z
      IN [i \in 1..n |-> [x |-> s(i, px), y |-> s(i, py), z |-> s(i, pz)]]))

\* <<windowSize, polyOrder>>: the settings the filter is used with
FilterSettings == { <<3, 1>>, <<3, 3>>, <<3, 4>>, <<4, 2>>, <<15, 3>> }

\* the weights depend on the two settings only: those of FilterSettings are
\* computed once
Coeffs == [f \in FilterSettings |-> sgCoeffs(f[1], f[2])]

\* No statement of the try block throws (invert substitutes a floor for a
\* vanishing pivot instead of failing), so the catch that returns `points`
\* is never entered.
savitzkyGolay(points, windowSize0, polyOrder0) ==
  IF Len(points) = 0 THEN <<>>
  ELSE smooth(points, IF <<windowSize0, polyOrder0>> \in FilterSettings
                        THEN Coeffs[<<windowSize0, polyOrder0>>]
                        ELSE sgCoeffs(windowSize0, polyOrder0))

(***************************************************************************)
(* kalman_filter.js.  The variances p are in units of 0.000001 and a gain  *)
(* in units of 0.0001.                                                     *)
(***************************************************************************)
processNoise     == 1000     \* 0.001
measurementNoise == 10000    \* 0.01

KalmanFilter3D(pn, mn) ==
  [ processNoise |-> pn, measurementNoise |-> mn,
    x |-> [x |-> 0, y |-> 0, z |-> 0],
    p |-> [x |-> 1000000, y |-> 1000000, z |-> 1000000],
    initd |-> FALSE ]

\* update(m): the filter after the call; the call returns a copy of its x
update(kf0, m0) ==
  Let(<<kf0, m0>>, LAMBDA a :
    LET m  == a[2]
        kf == IF a[1].initd THEN a[1]
              ELSE [a[1] EXCEPT !.x = m, !.p = [x |-> 1000000, y |-> 1000000, z |-> 1000000],
                                !.initd = TRUE]
        gain(p) == (p * 1000) \div ((p + kf.measurementNoise) \div 10)
    IN Let([x |-> kf.p.x + kf.processNoise, y |-> kf.p.y + kf.processNoise,
            z |-> kf.p.z + kf.processNoise], LAMBDA p :
         Let([x |-> gain(p.x), y |-> gain(p.y), z |-> gain(p.z)], LAMBDA k :
           [kf EXCEPT !.x = [kf.x EXCEPT !.x = @ + roundDiv(k.x * (m.x - @), 10000),
                                         !.y = @ + roundDiv(k.y * (m.y - @), 10000),
                                         !.z = @ + roundDiv(k.z * (m.z - @), 10000)],
                      !.p = [x |-> roundDiv((10000 - k.x) * p.x, 10000),
                             y |-> roundDiv((10000 - k.y) * p.y, 10000),
                             z |-> roundDiv((10000 - k.z) * p.z, 10000)]])))

\* points.map(p => kf.update(p))
RECURSIVE kalmanPass(_, _, _, _)
kalmanPass(kf0, points, i, out) ==
  IF i > Len(points) THEN out
  ELSE Let(update(kf0, points[i]), LAMBDA kf :
         kalmanPass(kf, points, i + 1, Append(out, kf.x)))

(***************************************************************************)
(* fixOverlappingPoints.  random[i] is the vector the three calls of       *)
(* Math.random() give for the point i, components in -0.5 .. 0.5 (units of *)
(* 0.0001); it is used only when the point coincides with its predecessor. *)
(***************************************************************************)
sqDist(p, q) ==
  (p.x - q.x) * (p.x - q.x) + (p.y - q.y) * (p.y - q.y) + (p.z - q.z) * (p.z - q.z)

\* the two points that replace prev and curr when they are too close
repair(prev0, curr0, minDist, rnd) ==
  Let(<<prev0, curr0, isqrt(100 * sqDist(prev0, curr0))>>, LAMBDA a :
    LET prev == a[1]
        curr == a[2]
        d10  == a[3]      \* ten times the distance
        h    == minDist \div 2
        off(delta, r) == IF d10 = 0 THEN roundDiv(r * h, 10000)
                         ELSE roundDiv(delta * h * 10, d10)
        ox == off(curr.x - prev.x, rnd[1])
        oy == off(curr.y - prev.y, rnd[2])
        oz == off(curr.z - prev.z, rnd[3])
    IN << [x |-> roundDiv(prev.x + curr.x - 2 * ox, 2),
           y |-> roundDiv(prev.y + curr.y - 2 * oy, 2),
           z |-> roundDiv(prev.z + curr.z - 2 * oz, 2)],
          [x |-> roundDiv(prev.x + curr.x + 2 * ox, 2),
           y |-> roundDiv(prev.y + curr.y + 2 * oy, 2),
           z |-> roundDiv(prev.z + curr.z + 2 * oz, 2)] >>)

RECURSIVE fixFrom(_, _, _, _, _)
fixFrom(points, minDist, random, i, fixed0) ==
  Let(fixed0, LAMBDA fixed :
    IF i > Len(points) THEN fixed
    ELSE IF sqDist(points[i], fixed[Len(fixed)]) < minDist * minDist
      THEN Let(repair(fixed[Len(fixed)], points[i], minDist, random[i]), LAMBDA two :
             fixFrom(points, minDist, random, i + 1,
                     Append([fixed EXCEPT ![Len(fixed)] = two[1]], two[2])))
      ELSE fixFrom(points, minDist, random, i + 1, Append(fixed, points[i])))

fixOverlappingPoints(points, minDist, random) ==
  IF Len(points) < 2 THEN points
  ELSE fixFrom(points, minDist, random, 2, <<points[1]>>)

(***************************************************************************)
(* buildManhattanPath.  Headings are in degrees; currentSnapDeg is <<>>    *)
(* for null and <<h>> for the heading h; the option clampY is <<>> for     *)
(* 'mean' and <<y>> for the number y.  The loop state carries, besides the *)
(* variables of the code, the trace of the processed samples: the heading  *)
(* each one snapped to and the heading committed after it.                 *)
(***************************************************************************)
\* norm180(Math.round(deg(Math.atan2(vz, vx)) / 90) * 90), (vx, vz) # (0, 0)
snapDeg(vx, vz) ==
  IF vx > 0 /\ -vx <= vz /\ vz < vx THEN 0
  ELSE IF vz > 0 /\ -vz < vx /\ vx <= vz THEN 90
  ELSE IF vz < 0 /\ vz <= vx /\ vx < -vz THEN -90
  ELSE 180

RECURSIVE sumY(_, _)
sumY(points, i) == IF i > Len(points) THEN 0 ELSE points[i].y + sumY(points, i + 1)

\* one iteration of the loop, for the sample i (from 2)
manhattanStep(points, lookahead, hysteresis, constantY, st0, i) ==
  Let(st0, LAMBDA st :
    LET raw == points[i]
        dx  == raw.x - st.prevRaw.x
        dz  == raw.z - st.prevRaw.z
        len == isqrt(dx * dx + dz * dz)
        end == IF i - 1 + lookahead > Len(points) THEN Len(points) ELSE i - 1 + lookahead
        tx  == points[end].x - points[i - 1].x
        tz  == points[end].z - points[i - 1].z
        snappedDeg == IF tx = 0 /\ tz = 0 THEN snapDeg(dx, dz) ELSE snapDeg(tx, tz)
        current0   == IF st.currentSnapDeg = <<>> THEN snappedDeg ELSE st.currentSnapDeg[1]
        switch     == snappedDeg # current0 /\ st.pendingSwitch + 1 >= hysteresis
        current    == IF switch THEN snappedDeg ELSE current0
        pending    == IF snappedDeg # current0 /\ ~switch THEN st.pendingSwitch + 1 ELSE 0
        dirX0 == IF current = 0 THEN 1 ELSE IF current = 180 THEN -1 ELSE 0
        dirZ0 == IF current = 90 THEN 1 ELSE IF current = -90 THEN -1 ELSE 0
        sign  == IF dx * dirX0 + dz * dirZ0 < 0 THEN -1 ELSE 1
        newPoint == [x |-> st.prevOut.x + sign * dirX0 * len,
                     y |-> constantY,
                     z |-> st.prevOut.z + sign * dirZ0 * len,
                     image_path |-> IF "image_path" \in DOMAIN raw THEN raw.image_path ELSE NULL,
                     yaw |-> 0, pitch |-> 0]
    IN IF len < 1 THEN [st EXCEPT !.prevRaw = raw]
       ELSE [out |-> Append(st.out, newPoint), prevOut |-> newPoint, prevRaw |-> raw,
             currentSnapDeg |-> <<current>>, pendingSwitch |-> pending,
             trace |-> Append(st.trace, [snapped |-> snappedDeg, committed |-> current])])

RECURSIVE manhattanLoop(_, _, _, _, _, _)
manhattanLoop(points, lookahead, hysteresis, constantY, st, i) ==
  IF i > Len(points) THEN st
  ELSE manhattanLoop(points, lookahead, hysteresis, constantY,
                     manhattanStep(points, lookahead, hysteresis, constantY, st, i), i + 1)

\* the state of the loop when it ends
manhattanRun(points0, lookahead, hysteresis, clampY) ==
  Let(<<points0, IF clampY = <<>> THEN roundDiv(sumY(points0, 1), Len(points0)) ELSE clampY[1]>>,
      LAMBDA a :
    manhattanLoop(a[1], lookahead, hysteresis, a[2],
                  [out |-> <<[a[1][1] EXCEPT !.y = a[2]]>>,
                   prevOut |-> [a[1][1] EXCEPT !.y = a[2]], prevRaw |-> a[1][1],
                   currentSnapDeg |-> <<>>, pendingSwitch |-> 0, trace |-> <<>>], 2))

buildManhattanPath(points, lookahead, hysteresis, clampY) ==
  IF Len(points) < 2 THEN points
  ELSE manhattanRun(points, lookahead, hysteresis, clampY).out

(***************************************************************************)
(* PathCameraExplorer: rebuildPaths.  An image reference is Image(k) or    *)
(* NULL.  windowSize and polyOrder are component state that no code sets.  *)
(***************************************************************************)
windowSize == 15
polyOrder  == 3
Z_SCALE    == 3

Image(k) == [shape |-> "image", k |-> k]

reattachNext(fixed0, scaled0) ==
  Let(<<fixed0, scaled0>>, LAMBDA a :
    [i \in 1..Len(a[1]) |->
       [image_path |-> a[2][IF i + 1 > Len(a[2]) THEN Len(a[2]) ELSE i + 1].image_path]
         @@ a[1][i]])

\* the map over the repaired path: point i takes the image of scaled[i]
reattach(fixed0, scaled0) ==
  Let(<<fixed0, scaled0>>, LAMBDA a :
    [i \in 1..Len(a[1]) |->
       [image_path |-> a[2][IF i > Len(a[2]) THEN Len(a[2]) ELSE i].image_path]
         @@ a[1][i]])

\* the path rebuildPaths stores in cameraPathRef.current
rebuildPaths(raw0, random) ==
  Let(raw0, LAMBDA raw :
    Let(kalmanPass(KalmanFilter3D(processNoise, measurementNoise),
                   savitzkyGolay(raw, IF windowSize < 3 THEN 3 ELSE windowSize, polyOrder),
                   1, <<>>), LAMBDA kf :
      Let([i \in 1..Len(kf) |->
             [x |-> -kf[i].z, y |-> PATH_HEIGHT, z |-> (-kf[i].x) * Z_SCALE,
              image_path |-> raw[i].image_path, yaw |-> 0, pitch |-> 0]], LAMBDA scaled :
        reattach(fixOverlappingPoints(scaled, 500, random), scaled))))

(***************************************************************************)
(* Specification SpecCalib: the calibration solvers and the two point      *)
(* conversions, applied to the point pairs localStorage holds when the     *)
(* page mounts.  lastOp records the function applied, its arguments and    *)
(* its result.                                                             *)
(***************************************************************************)
Points ==
  { <<10000 * x, 10000 * y, 10000 * z>> :
      x \in -MaxCoord..MaxCoord, y \in -MaxCoord..MaxCoord, z \in -MaxCoord..MaxCoord }

InitCalib ==
  \E k \in 1..Len(PairLists) :
    /\ store = InitStore
    /\ closure = InitClosure
    /\ frames = {}
    /\ now = 0
    /\ frameTime = -1
    /\ three = "modern"
    /\ forge = InitForge(0)
    /\ pano = InitPano(0, FALSE)
    /\ app = InitApp(k)
    /\ nOps = 0
    /\ lastOp = [name |-> "mount"]
    /\ hist = InitHist

\* ForgeViewer and PathCameraExplorer, effect "load calibration (once)"
LoadCalibration ==
  /\ forge.calibration = NULL
  /\ forge' = [forge EXCEPT !.calibration = calibrationOf(app.localStorage)]
  /\ pano' = [pano EXCEPT !.calibrationRef = calibrationOf(app.localStorage)]
  /\ lastOp' = [name |-> "loadCalibration", n |-> Len(PairLists[app.localStorage])]
  /\ UNCHANGED <<store, closure, frames, now, frameTime, three, app, nOps, hist>>

CalculateCalibration ==
  /\ lastOp' = [name |-> "calculateCalibration",
                n |-> Len(PairLists[app.localStorage]),
                result |-> calibrationOf(app.localStorage)]
  /\ UNCHANGED <<store, closure, frames, now, frameTime, three, forge, pano, app, nOps, hist>>

ComputeTransform ==
  /\ lastOp' = [name |-> "computeTransform",
                n |-> Len(PairLists[app.localStorage]),
                result |-> computeTransform(revitPts(PairLists[app.localStorage]),
                                            panoPts(PairLists[app.localStorage]))]
  /\ UNCHANGED <<store, closure, frames, now, frameTime, three, forge, pano, app, nOps, hist>>

PanoToForge ==
  /\ \E p \in Points :
       lastOp' = [name |-> "panoToForge", p |-> p,
                  result |-> panoToForge(p, calibrationOf(app.localStorage))]
  /\ UNCHANGED <<store, closure, frames, now, frameTime, three, forge, pano, app, nOps, hist>>

\* forgeToPano applied to the point panoToForge has just returned
ForgeToPano ==
  /\ lastOp.name = "panoToForge"
  /\ lastOp' = [name |-> "forgeToPano", p |-> lastOp.p, forgePoint |-> lastOp.result,
                result |-> forgeToPano(lastOp.result, calibrationOf(app.localStorage))]
  /\ UNCHANGED <<store, closure, frames, now, frameTime, three, forge, pano, app, nOps, hist>>

NextCalib ==
  \/ LoadCalibration
  \/ CalculateCalibration
  \/ ComputeTransform
  \/ PanoToForge
  \/ ForgeToPano

SpecCalib == InitCalib /\ [][NextCalib]_vars

(***************************************************************************)
(* Specification SpecQuat: the orientation operators of                    *)
(* utils/camera_transformation and of the Forge viewer, applied to a unit  *)
(* quaternion of the panorama camera.  lastOp.forward lists the operators  *)
(* applied so far.                                                         *)
(***************************************************************************)
UnitQuats ==
  { qNormalize(<<10000 * x, 10000 * y, 10000 * z, 10000 * w>>) :
      x \in -MaxQ..MaxQ, y \in -MaxQ..MaxQ, z \in -MaxQ..MaxQ, w \in -MaxQ..MaxQ } \ {QuatNaN}

InitQuat ==
  \E q \in UnitQuats :
    /\ store = InitStore
    /\ closure = InitClosure
    /\ frames = {}
    /\ now = 0
    /\ frameTime = -1
    /\ three = "modern"
    /\ forge = InitForge(0)
    /\ pano = [InitPano(0, FALSE) EXCEPT !.currentPOVRef = q]
    /\ app = InitApp(0)
    /\ nOps = 0
    /\ lastOp = [name |-> "quat", result |-> q, forward |-> <<>>]
    /\ hist = InitHist

QuatStep(name, result, forward) ==
  /\ lastOp' = [name |-> name, result |-> result, forward |-> forward]
  /\ UNCHANGED <<store, closure, frames, now, frameTime, three, forge, pano, app, nOps, hist>>

TransformQuaternion ==
  /\ lastOp.forward = <<>>
  /\ QuatStep("transformQuaternion", transformQuaternion(lastOp.result), <<"calibration">>)

\* ForgeViewer: q.multiply(pitchDown90)
PitchDown90 ==
  /\ lastOp.forward = <<"calibration">>
  /\ QuatStep("pitchDown90", multiply(lastOp.result, pitchDown90), <<"calibration", "pitch">>)

Flip180Z ==
  /\ lastOp.forward = <<"calibration", "pitch">>
  /\ QuatStep("flip180Z", flip180Z(lastOp.result), <<"calibration", "pitch", "flip">>)

TransformQuaternionMirrored ==
  /\ lastOp.forward = <<>>
  /\ QuatStep("transformQuaternionMirrored", transformQuaternionMirrored(lastOp.result),
              <<"calibration", "flip">>)

ReverseTransform ==
  /\ lastOp.forward = <<"calibration">>
  /\ QuatStep("reverseTransform", reverseTransform(lastOp.result), <<"calibration", "reverse">>)

ForgeToPanoQuaternion ==
  /\ lastOp.forward \in {<<"calibration", "pitch", "flip">>, <<"calibration", "flip">>}
  /\ QuatStep("forgeToPanoQuaternion", forgeToPanoQuaternion(lastOp.result),
              Append(lastOp.forward, "inverse"))

NextQuat ==
  \/ TransformQuaternion
  \/ PitchDown90
  \/ Flip180Z
  \/ TransformQuaternionMirrored
  \/ ReverseTransform
  \/ ForgeToPanoQuaternion

SpecQuat == InitQuat /\ [][NextQuat]_vars

(***************************************************************************)
(* Specification SpecPath: the path-conditioning functions applied to the  *)
(* raw dataset dataRef.current holds once it has loaded, and rebuildPaths, *)
(* which the load effect calls.  The component carries the two path refs   *)
(* in the fields dataRef and cameraPathRef.                                *)
(***************************************************************************)
PathPositions == { <<0, 600>>, <<600, 0>>, <<600, 600>>, <<600, 700>> }   \* <<x, z>>

\* raw datasets: up to MaxPath samples; the sample `hole` has no image
RawPaths ==
  UNION { { [i \in 1..n |-> [x |-> pos[i][1], y |-> 0, z |-> pos[i][2],
                             image_path |-> IF i = hole THEN NULL ELSE Image(i)]] :
              pos \in [1..n -> PathPositions], hole \in {0, 2} } : n \in 0..MaxPath }

RandomDirs == { <<-5000, -5000, -5000>>, <<3000, 0, -4000>> }

\* the draws of one call: the same vector at every point, or the two in turn
Randoms ==
  { [i \in 1..MaxPath |-> d] : d \in RandomDirs }
    \cup { [i \in 1..MaxPath |-> IF i % 2 = 0 THEN <<-5000, -5000, -5000>> ELSE <<3000, 0, -4000>>] }

InitPath ==
  \E raw \in RawPaths :
    /\ store = InitStore
    /\ closure = InitClosure
    /\ frames = {}
    /\ now = 0
    /\ frameTime = -1
    /\ three = "modern"
    /\ forge = InitForge(0)
    /\ pano = [dataRef |-> raw, cameraPathRef |-> <<>>] @@ InitPano(0, FALSE)
    /\ app = InitApp(0)
    /\ nOps = 0
    /\ lastOp = [name |-> "mount"]
    /\ hist = InitHist

\* one function is applied to the dataset, before or after rebuildPaths
PathStep(op) ==
  /\ lastOp.name \in {"mount", "rebuildPaths"}
  /\ lastOp' = op
  /\ UNCHANGED <<store, closure, frames, now, frameTime, three, forge, pano, app, nOps, hist>>

SavitzkyGolay ==
  \E f \in FilterSettings :
    PathStep([name |-> "savitzkyGolay", points |-> pano.dataRef,
              windowSize |-> f[1], polyOrder |-> f[2],
              result |-> savitzkyGolay(pano.dataRef, f[1], f[2])])

KalmanPass ==
  PathStep([name |-> "kalman", points |-> pano.dataRef,
            result |-> kalmanPass(KalmanFilter3D(processNoise, measurementNoise),
                                  pano.dataRef, 1, <<>>)])

FixOverlappingPoints ==
  \E random \in Randoms :
    PathStep([name |-> "fixOverlappingPoints", points |-> pano.dataRef, minDist |-> 500,
              result |-> fixOverlappingPoints(pano.dataRef, 500, random)])

BuildManhattanPath ==
  \E lookahead \in {1, 5}, hysteresis \in 1..3 :
    PathStep([name |-> "buildManhattanPath", points |-> pano.dataRef,
              hysteresis |-> hysteresis,
              trace |-> IF Len(pano.dataRef) < 2 THEN <<>>
                        ELSE manhattanRun(pano.dataRef, lookahead, hysteresis, <<>>).trace,
              result |-> buildManhattanPath(pano.dataRef, lookahead, hysteresis, <<>>)])

\* the dataset-load effect: rebuildPaths()
RebuildPaths ==
  /\ lastOp.name = "mount"
  /\ Len(pano.dataRef) > 0
  /\ \E random \in Randoms :
       pano' = Let(rebuildPaths(pano.dataRef, random), LAMBDA fixed :
                 [pano EXCEPT !.cameraPathRef = fixed,
                              !.pathIndexRef = IF @ > Len(fixed) THEN Len(fixed) ELSE @])
  /\ lastOp' = [name |-> "rebuildPaths"]
  /\ UNCHANGED <<store, closure, frames, now, frameTime, three, forge, app, nOps, hist>>

NextPath ==
  \/ SavitzkyGolay
  \/ KalmanPass
  \/ FixOverlappingPoints
  \/ BuildManhattanPath
  \/ RebuildPaths

SpecPath == InitPath /\ [][NextPath]_vars

(***************************************************************************)
(* README.md, boundary constraint utilities.  Coordinates are in units of  *)
(* 0.001; the vertices of the polygon are multiples of 0.1.                *)
(***************************************************************************)
BOUNDARY_POINTS ==
  << [x |-> 79700, y |-> 39500], [x |-> 39800, y |-> 39800], [x |-> 41700, y |-> 106700],
     [x |-> 63200, y |-> 107200], [x |-> 63200, y |-> 125300], [x |-> 79700, y |-> 127300] >>

BOUNDARY_MARGIN == 500     \* 0.5

\* the edge test of the ray casting, for the edge from points[j] to points[i]:
\* x < (xj - xi) * (y - yi) / (yj - yi) + xi, without the division
intersect(x, y, pi, pj) ==
  /\ (pi.y > y) # (pj.y > y)
  /\ IF pj.y > pi.y
       THEN (x - pi.x) * ((pj.y - pi.y) \div 100) < ((pj.x - pi.x) \div 100) * (y - pi.y)
       ELSE (x - pi.x) * ((pj.y - pi.y) \div 100) > ((pj.x - pi.x) \div 100) * (y - pi.y)

isPointInsideBoundary(x, y) ==
  LET n == Len(BOUNDARY_POINTS)
      crossings == { i \in 1..n :
                       intersect(x, y, BOUNDARY_POINTS[i],
                                 BOUNDARY_POINTS[IF i = 1 THEN n ELSE i - 1]) }
  IN Cardinality(crossings) % 2 = 1

\* the point of the segment p1-p2 closest to (x, y):  p1 + t * (p2 - p1) with
\* t = ((x - p1.x) * dx + (y - p1.y) * dy) / len2 clamped to 0..1
closestOnEdge(x, y, p1, p2) ==
  LET dx   == (p2.x - p1.x) \div 100
      dy   == (p2.y - p1.y) \div 100
      len2 == dx * dx + dy * dy
  IN Let((x - p1.x) * dx + (y - p1.y) * dy, LAMBDA num :
       IF num <= 0 THEN p1
       ELSE IF num >= 100 * len2 THEN p2
       ELSE [x |-> p1.x + (num \div len2) * dx + roundDiv((num % len2) * dx, len2),
             y |-> p1.y + (num \div len2) * dy + roundDiv((num % len2) * dy, len2)])

\* the square of Math.hypot(a, b); a distance above 30 cannot be the minimum
\* for the points of this model and is not computed
sqHypot(a, b) ==
  IF Abs(a) > 30000 \/ Abs(b) > 30000 THEN 2000000000 ELSE a * a + b * b

\* the loop of findNearestBoundaryPoint from the edge i on; best is the nearest
\* point so far with the square of its distance, <<>> before the first edge
RECURSIVE nearestFrom(_, _, _, _)
nearestFrom(x, y, i, best0) ==
  Let(best0, LAMBDA best :
    IF i > Len(BOUNDARY_POINTS) THEN best
    ELSE Let(closestOnEdge(x, y, BOUNDARY_POINTS[i],
                           BOUNDARY_POINTS[(i % Len(BOUNDARY_POINTS)) + 1]), LAMBDA c :
           Let(sqHypot(x - c.x, y - c.y), LAMBDA d2 :
             nearestFrom(x, y, i + 1,
                         IF best = <<>> \/ d2 < best[1].d2
                           THEN <<[x |-> c.x, y |-> c.y, d2 |-> d2]>> ELSE best))))

findNearestBoundaryPoint(x, y) ==
  Let(nearestFrom(x, y, 1, <<>>)[1], LAMBDA b :
    [x |-> b.x, y |-> b.y, distance |-> isqrt(b.d2)])

RECURSIVE sumOf(_, _, _)
sumOf(points, f(_), i) ==
  IF i > Len(points) THEN 0 ELSE f(points[i]) + sumOf(points, f, i + 1)

getPolygonCentroid ==
  [x |-> roundDiv(sumOf(BOUNDARY_POINTS, LAMBDA p : p.x, 1), Len(BOUNDARY_POINTS)),
   y |-> roundDiv(sumOf(BOUNDARY_POINTS, LAMBDA p : p.y, 1), Len(BOUNDARY_POINTS))]

\* the inward step: margin * dir / |dir|, the direction measured in units of 0.01
inwardStep(dirX, dirY, margin) ==
  Let(<<roundDiv(dirX, 10), roundDiv(dirY, 10)>>, LAMBDA d :
    Let(isqrt(d[1] * d[1] + d[2] * d[2]), LAMBDA dirLen :
      IF dirLen > 0
        THEN <<roundDiv(d[1] * margin, dirLen), roundDiv(d[2] * margin, dirLen)>>
        ELSE <<roundDiv(dirX * margin, 1000), roundDiv(dirY * margin, 1000)>>))

clampToBoundary(x, y) ==
  IF isPointInsideBoundary(x, y) THEN [x |-> x, y |-> y, wasClamped |-> FALSE]
  ELSE Let(findNearestBoundaryPoint(x, y), LAMBDA nearest :
         Let(inwardStep(getPolygonCentroid.x - nearest.x, getPolygonCentroid.y - nearest.y,
                        BOUNDARY_MARGIN), LAMBDA step :
           [x |-> nearest.x + step[1], y |-> nearest.y + step[2],
            wasClamped |-> TRUE, originalDistance |-> nearest.distance]))

(***************************************************************************)
(* Specification SpecBoundary: clampToBoundary applied to a query point,   *)
(* and again to its own result.                                            *)
(***************************************************************************)
QueryPoints ==
  { [x |-> 36000 + 4000 * i, y |-> 36000 + 4000 * j] : i \in 0..MaxBX, j \in 0..MaxBY }

InitBoundary ==
  \E p \in QueryPoints :
    /\ store = InitStore
    /\ closure = InitClosure
    /\ frames = {}
    /\ now = 0
    /\ frameTime = -1
    /\ three = "modern"
    /\ forge = InitForge(0)
    /\ pano = InitPano(0, FALSE)
    /\ app = InitApp(0)
    /\ nOps = 0
    /\ lastOp = [name |-> "query", p |-> p]
    /\ hist = InitHist

BoundaryStep(op) ==
  /\ lastOp' = op
  /\ UNCHANGED <<store, closure, frames, now, frameTime, three, forge, pano, app, nOps, hist>>

IsPointInsideBoundary ==
  /\ lastOp.name = "query"
  /\ BoundaryStep([name |-> "isPointInsideBoundary", p |-> lastOp.p,
                   result |-> isPointInsideBoundary(lastOp.p.x, lastOp.p.y)])

FindNearestBoundaryPoint ==
  /\ lastOp.name = "query"
  /\ BoundaryStep([name |-> "findNearestBoundaryPoint", p |-> lastOp.p,
                   result |-> findNearestBoundaryPoint(lastOp.p.x, lastOp.p.y)])

ClampToBoundary ==
  /\ lastOp.name = "query"
  /\ BoundaryStep([name |-> "clampToBoundary", p |-> lastOp.p,
                   result |-> clampToBoundary(lastOp.p.x, lastOp.p.y)])

\* clampToBoundary applied to the point it has just returned
ClampAgain ==
  /\ lastOp.name = "clampToBoundary"
  /\ BoundaryStep([name |-> "clampAgain", p |-> lastOp.p, first |-> lastOp.result,
                   result |-> clampToBoundary(lastOp.result.x, lastOp.result.y)])

NextBoundary ==
  \/ IsPointInsideBoundary
  \/ FindNearestBoundaryPoint
  \/ ClampToBoundary
  \/ ClampAgain

SpecBoundary == InitBoundary /\ [][NextBoundary]_vars

(***************************************************************************)
(* PathCameraExplorer, data loading.  A JSON object is a function from     *)
(* its keys to their values; an array [a, b, c] is the object with the     *)
(* keys "0", "1", "2".  A key whose value is null counts as absent (??     *)
(* treats null and undefined alike).  Coordinates are in units of 0.0001.  *)
(***************************************************************************)
seg  == 20
dirs  == << [x |-> 1, z |-> 0], [x |-> 0, z |-> 1], [x |-> -1, z |-> 0], [x |-> 0, z |-> -1] >>

has(d, k) == k \in DOMAIN d

\* d.position || d.pos || d.coordinates || d
positionOf(d) ==
  IF has(d, "position") THEN d.position
  ELSE IF has(d, "pos") THEN d.pos
  ELSE IF has(d, "coordinates") THEN d.coordinates
  ELSE d

\* d.image_path || d.image || d.img || d.texture || null
imageOf(d) ==
  IF has(d, "image_path") THEN d.image_path
  ELSE IF has(d, "image") THEN d.image
  ELSE IF has(d, "img") THEN d.img
  ELSE IF has(d, "texture") THEN d.texture
  ELSE NULL

\* pos.x ?? pos.X ?? pos[0] ?? def
coordOf(pos, lower, upper, index, def) ==
  IF has(pos, lower) THEN pos[lower]
  ELSE IF has(pos, upper) THEN pos[upper]
  ELSE IF has(pos, index) THEN pos[index]
  ELSE def

\* the callback of j.frames.map
frameToPoint(d) ==
  [ x |-> coordOf(positionOf(d), "x", "X", "0", 0),
    y |-> coordOf(positionOf(d), "y", "Y", "1", 16000),
    z |-> coordOf(positionOf(d), "z", "Z", "2", 0),
    image_path |-> imageOf(d) ]

\* (Math.random() - 0.5) * width, for a draw r in 0 .. 9999 (units of 0.0001)
jitter(r, width) == roundDiv((r - 5000) * width, 10000)

\* the generated path that replaces a dataset that did not load, cut after
\* MaxSteps of its 200 points; every draw of Math.random() is r
RECURSIVE fallbackFrom(_, _, _, _, _)
fallbackFrom(r, i, cx0, cz0, pts0) ==
  Let(<<cx0, cz0, pts0>>, LAMBDA a :
    IF i >= MaxSteps THEN a[3]
    ELSE LET d   == dirs[((i \div seg) % 4) + 1]
             len == 5000 + (i % seg) * 200
             cx  == a[1] + d.x * len
             cz  == a[2] + d.z * len
         IN fallbackFrom(r, i + 1, cx, cz,
              Append(a[3], [x |-> cx + jitter(r, 800), y |-> 16000 + jitter(r, 500),
                            z |-> cz + jitter(r, 800), image_path |-> NULL])))

fallbackPath(r) == fallbackFrom(r, 0, 0, 0, <<>>)

\* pts of the load effect.  A response is not ok (r.ok is false), throws
\* (fetch rejects, the body is not JSON or has no frames) or carries frames.
loadPoints(response, r) ==
  Let(IF response.kind = "frames"
      THEN [i \in 1..Len(response.frames) |-> frameToPoint(response.frames[i])]
      ELSE <<>>, LAMBDA pts :
    IF Len(pts) = 0 THEN fallbackPath(r) ELSE pts)

(***************************************************************************)
(* Specification SpecLoad: the component mounts, the dataset request is    *)
(* answered with any of the responses below and the load effect stores     *)
(* the waypoints and rebuilds the path; the component may unmount first.   *)
(***************************************************************************)
array(a, b, c) == ("0" :> a) @@ ("1" :> b) @@ ("2" :> c)

DatasetFrames ==
  { [position |-> [x |-> 0, y |-> 16000, z |-> 600], image_path |-> Image(1)],
    [pos |-> [X |-> 600, Y |-> 16000, Z |-> 0], image |-> Image(2)],
    [coordinates |-> array(600, 16000, 600)],
    [x |-> 600, y |-> 16000, z |-> 700, texture |-> Image(4)],
    [position |-> [x |-> 600, z |-> 700], img |-> Image(5)],
    [position |-> [y |-> 16000, z |-> 600]],
    [pos |-> [x |-> 1200, y |-> 16000]],
    [image_path |-> Image(8)] }

Responses ==
  { [kind |-> "notOk", frames |-> <<>>], [kind |-> "throws", frames |-> <<>>] }
    \cup UNION { { [kind |-> "frames", frames |-> f] : f \in [1..n -> DatasetFrames] }
                   : n \in 0..MaxFrames }

InitLoad ==
  \E response \in Responses :
    /\ store = InitStore
    /\ closure = InitClosure
    /\ frames = {}
    /\ now = 0
    /\ frameTime = -1
    /\ three = "modern"
    /\ forge = InitForge(0)
    /\ pano = [dataRef |-> <<>>, cameraPathRef |-> <<>>, alive |-> TRUE]
                @@ InitPano(0, FALSE)
    /\ app = InitApp(0)
    /\ nOps = 0
    /\ lastOp = [name |-> "fetch", response |-> response]
    /\ hist = InitHist

\* the cleanup of the load effect: alive = false
Unmount ==
  /\ lastOp.name = "fetch"
  /\ pano.alive
  /\ pano' = [pano EXCEPT !.alive = FALSE]
  /\ UNCHANGED <<store, closure, frames, now, frameTime, three, forge, app, nOps, lastOp,
                 hist>>

\* the response arrives: dataRef.current = pts; initScene(); rebuildPaths()
LoadData ==
  /\ lastOp.name = "fetch"
  /\ \E r \in {0, 5000, 9999}, dir \in RandomDirs :
       pano' = IF ~pano.alive THEN pano
               ELSE Let(loadPoints(lastOp.response, r), LAMBDA pts :
                      Let(rebuildPaths(pts, [i \in 1..Len(pts) |-> dir]), LAMBDA fixed :
                        [pano EXCEPT !.dataRef = pts,
                                     !.cameraPathRef = fixed,
                                     !.pathIndexRef = IF @ > Len(fixed) THEN Len(fixed) ELSE @]))
  /\ lastOp' = [name |-> "loadData", response |-> lastOp.response]
  /\ UNCHANGED <<store, closure, frames, now, frameTime, three, forge, app, nOps, hist>>

NextLoad ==
  \/ Unmount
  \/ LoadData

SpecLoad == InitLoad /\ [][NextLoad]_vars

(***************************************************************************)
(* Specification SpecClick: floor clicks.  The floor map publishes clicks  *)
(* with pushFloorClick; ForgeViewer's floor-click effect depends on        *)
(* viewerReady, floorClickSeq and calibration and runs once per commit in  *)
(* which one of them changed, with the floorClick of that render.  React   *)
(* commits the updates of one task together, so a commit may carry more    *)
(* than one click.  hist.handled lists the seq of every jump performed;    *)
(* hist.unready says a click was published before the viewer was ready or  *)
(* without a calibration.                                                  *)
(***************************************************************************)
ClickPositions == { Arr(<<0, 16000, 0>>), Arr(<<20000, 16000, 0>>) }

\* the orientation of a camera that looks from pos to pos + (0, -20, 0) with
\* up (0, 0, 1)
LOOK_MINUS_Y == Quat(<<0, 7071, 7071, 0>>)

InitClick ==
  \E saved \in {0, 1}, ready \in BOOLEAN :
    /\ store = [InitStore EXCEPT !.calibration = loadCalibration(saved)]
    /\ closure = InitClosure
    /\ frames = {}
    /\ now = 0
    /\ frameTime = -1
    /\ three = "modern"
    /\ forge = [viewerReady |-> ready, lastHandledClickSeqRef |-> 0,
                clickEffectPending |-> FALSE] @@ InitForge(saved)
    /\ pano = InitPano(saved, FALSE)
    /\ app = InitApp(saved)
    /\ nOps = 0
    /\ lastOp = [name |-> "mount"]
    /\ hist = [handled |-> <<>>, unready |-> FALSE] @@ InitHist

\* the floor map: pushFloorClick(pos)
FloorClick ==
  /\ nOps < MaxOps
  /\ \E pos \in ClickPositions : Commit(pushFloorClick(Sys, pos, now))
  /\ forge' = [forge EXCEPT !.clickEffectPending = TRUE]
  /\ hist' = [hist EXCEPT !.unready =
                @ \/ ~forge.viewerReady \/ forge.calibration.shape = "null"]
  /\ nOps' = nOps + 1
  /\ lastOp' = [name |-> "pushFloorClick"]
  /\ UNCHANGED <<now, frameTime, three, pano, app>>

\* the timer of the viewer's initialisation: setViewerReady(true)
ViewerReady ==
  /\ ~forge.viewerReady
  /\ forge' = [forge EXCEPT !.viewerReady = TRUE, !.clickEffectPending = TRUE]
  /\ lastOp' = [name |-> "setViewerReady"]
  /\ UNCHANGED <<store, closure, frames, now, frameTime, three, pano, app, nOps, hist>>

\* ForgeViewer floor-click effect
FloorClickEffect ==
  /\ forge.clickEffectPending
  /\ LET fc == store.floorClick
         run == /\ forge.viewerReady
                /\ forge.calibration.shape # "null"
                /\ fc # NULL
                /\ fc.seq # forge.lastHandledClickSeqRef
         f == panoToForge(fc.pos.c, forge.calibration)
     IN /\ forge' = IF run
                    THEN [forge EXCEPT
                            !.clickEffectPending = FALSE,
                            !.camera = [pos |-> f, quat |-> LOOK_MINUS_Y],
                            !.cameraEvent = TRUE,
                            !.lastHandledClickSeqRef = fc.seq]
                    ELSE [forge EXCEPT !.clickEffectPending = FALSE]
        /\ Commit(IF run THEN setIsSyncing(setIsSyncing(Sys, TRUE), FALSE) ELSE Sys)
        /\ hist' = IF run THEN [hist EXCEPT !.handled = Append(@, fc.seq)] ELSE hist
        /\ lastOp' = [name |-> "floorClickEffect", ran |-> run]
  /\ UNCHANGED <<now, frameTime, three, pano, app, nOps>>

\* the clock advances between tasks, once React has committed
AdvanceClick ==
  /\ now < MaxTime
  /\ ~forge.clickEffectPending
  /\ now' = now + TimeStep
  /\ lastOp' = [name |-> "time"]
  /\ UNCHANGED <<store, closure, frames, frameTime, three, forge, pano, app, nOps, hist>>

NextClick ==
  \/ FloorClick
  \/ ViewerReady
  \/ FloorClickEffect
  \/ AdvanceClick

SpecClick == InitClick /\ [][NextClick]_vars

(***************************************************************************)
(* SplitPane: the calibration editor.  The text of an input field is ""    *)
(* (empty), a number, a number followed by other characters ("12abc") or   *)
(* text that starts with no number; parseFloat gives the number the text   *)
(* starts with, or NaN (<<>>).  A point pair is a record of six texts.     *)
(***************************************************************************)
EMPTY == [text |-> "empty", v |-> 0]
JUNK  == [text |-> "junk", v |-> 0]
Text(n) == [text |-> "num", v |-> n]
Prefixed(n) == [text |-> "prefixed", v |-> n]

parseFloat(c) == IF c.text \in {"num", "prefixed"} THEN <<c.v>> ELSE <<>>

emptyPair == [revit |-> <<EMPTY, EMPTY, EMPTY>>, pano |-> <<EMPTY, EMPTY, EMPTY>>]

\* useState: always start with 3 empty pairs
initialPairs == <<emptyPair, emptyPair, emptyPair>>

\* the test of the load effect: !isNaN(parseFloat(pair[space][coord]))
parses(pair) ==
  \A space \in {"revit", "pano"} : \A coord \in 1..3 : parseFloat(pair[space][coord]) # <<>>

\* the test of handleApply and allThreeFilled: not "" and parses
filled(pair) ==
  \A space \in {"revit", "pano"} : \A coord \in 1..3 :
    pair[space][coord] # EMPTY /\ parseFloat(pair[space][coord]) # <<>>

numbers(pairs, space) ==
  [i \in 1..Len(pairs) |-> [coord \in 1..3 |-> parseFloat(pairs[i][space][coord])[1]]]

\* applyCalibration(pairs): the calibration handed to setCalibration
applyCalibration(pairs) == calculateCalibration(numbers(pairs, "pano"), numbers(pairs, "revit"))

\* Mutant of removePointPair: the check of the length is missing.
removePointPairUnguarded(pointPairs, idx) ==
  SubSeq(pointPairs, 1, idx - 1) \o SubSeq(pointPairs, idx + 1, Len(pointPairs))

removePointPair(pointPairs, idx) ==
  IF Len(pointPairs) <= 3 THEN pointPairs
  ELSE SubSeq(pointPairs, 1, idx - 1) \o SubSeq(pointPairs, idx + 1, Len(pointPairs))

addPointPair(pointPairs) == Append(pointPairs, emptyPair)

updatePoint(pointPairs, idx, space, coord, value) ==
  [pointPairs EXCEPT ![idx][space][coord] = value]

\* handleApply: the pairs it keeps
valid(pointPairs) == SelectSeq(pointPairs, filled)

allThreeFilled(pointPairs) == \A i \in 1..3 : filled(pointPairs[i])

\* Mutant of handleApply: two valid pairs are enough.
handleApplyTwo(pointPairs) ==
  [ok |-> Len(valid(pointPairs)) >= 2, kept |-> valid(pointPairs)]

\* handleApply: whether it applies (valid.length >= 3) and the pairs it keeps
handleApply(pointPairs) ==
  [ok |-> Len(valid(pointPairs)) >= 3, kept |-> valid(pointPairs)]

(***************************************************************************)
(* Specification SpecEditor: SplitPane mounts with any of the saved        *)
(* contents below in localStorage, runs its load effect, and the user      *)
(* edits, adds and removes rows, applies and resets.  A saved content is   *)
(* absent, not a JSON array, or a list of pairs.                           *)
(***************************************************************************)
asTexts(pts) ==
  [i \in 1..Len(pts) |->
     [revit |-> [c \in 1..3 |-> Text(pts[i].revit[c])],
      pano  |-> [c \in 1..3 |-> Text(pts[i].pano[c])]]]

SavedContents ==
  { [kind |-> "none", rows |-> <<>>],
    [kind |-> "junk", rows |-> <<>>],
    [kind |-> "list", rows |-> asTexts(PairLists[1])],
    [kind |-> "list", rows |-> asTexts(PairLists[4])],
    [kind |-> "list", rows |-> asTexts(PairLists[7])],
    [kind |-> "list", rows |-> updatePoint(asTexts(PairLists[4]), 2, "pano", 3, EMPTY)] }

NoSaved == [kind |-> "none", rows |-> <<>>]

InitEditor ==
  \E saved \in SavedContents :
    /\ store = InitStore
    /\ closure = InitClosure
    /\ frames = {}
    /\ now = 0
    /\ frameTime = -1
    /\ three = "modern"
    /\ forge = InitForge(0)
    /\ pano = InitPano(0, FALSE)
    /\ app = [localStorage |-> saved, pointPairs |-> initialPairs, timers |-> <<>>]
    /\ nOps = 0
    /\ lastOp = [name |-> "mount", applied |-> FALSE, from |-> <<>>, before |-> <<>>]
    /\ hist = InitHist

EditorStep(name, applied, from) ==
  /\ lastOp' = [name |-> name, applied |-> applied, from |-> from, before |-> app.pointPairs]
  /\ UNCHANGED <<closure, frames, now, frameTime, three, forge, pano, hist>>

\* the load effect
LoadSaved ==
  /\ lastOp.name = "mount"
  /\ LET saved == app.localStorage
         ok == /\ saved.kind = "list"
               /\ Len(saved.rows) >= 3
               /\ \A i \in 1..Len(saved.rows) : parses(saved.rows[i])
     IN /\ app' = IF saved.kind = "none" THEN app
                  ELSE IF ok THEN [app EXCEPT !.pointPairs = saved.rows]
                  ELSE [app EXCEPT !.localStorage = NoSaved]
        /\ store' = IF ok THEN setCalibration(Sys, applyCalibration(saved.rows)).store
                    ELSE store
        /\ EditorStep("loadSaved", ok, IF ok THEN saved.rows ELSE <<>>)
  /\ UNCHANGED nOps

Loaded == lastOp.name # "mount"

AddPointPair ==
  /\ Loaded
  /\ nOps < MaxOps
  /\ Len(app.pointPairs) < MaxRows
  /\ allThreeFilled(app.pointPairs)
  /\ app' = [app EXCEPT !.pointPairs = addPointPair(@)]
  /\ nOps' = nOps + 1
  /\ EditorStep("addPointPair", FALSE, <<>>)
  /\ UNCHANGED store

RemovePointPair ==
  /\ Loaded
  /\ nOps < MaxOps
  /\ Len(app.pointPairs) > 3
  /\ \E idx \in 1..Len(app.pointPairs) :
       app' = [app EXCEPT !.pointPairs = removePointPair(@, idx)]
  /\ nOps' = nOps + 1
  /\ EditorStep("removePointPair", FALSE, <<>>)
  /\ UNCHANGED store

\* updatePoint(idx, space, coord, value): the user changes one field
EditPoint ==
  /\ Loaded
  /\ nOps < MaxOps
  /\ \E idx \in 1..Len(app.pointPairs), space \in {"revit", "pano"}, coord \in 1..3 :
       \E value \in {EMPTY, JUNK, Prefixed(app.pointPairs[idx][space][coord].v)} :
         app' = [app EXCEPT !.pointPairs = updatePoint(@, idx, space, coord, value)]
  /\ nOps' = nOps + 1
  /\ EditorStep("updatePoint", FALSE, <<>>)
  /\ UNCHANGED store

\* handleApply; saveCalibration stores the pairs of the current render
ApplyAndSave ==
  /\ Loaded
  /\ nOps < MaxOps
  /\ LET kept == handleApply(app.pointPairs).kept
         ok == handleApply(app.pointPairs).ok
     IN /\ app' = IF ok
                  THEN [app EXCEPT !.pointPairs = kept,
                                   !.localStorage = [kind |-> "list", rows |-> app.pointPairs]]
                  ELSE app
        /\ store' = IF ok THEN setCalibration(Sys, applyCalibration(kept)).store ELSE store
        /\ EditorStep("handleApply", ok, IF ok THEN kept ELSE <<>>)
  /\ nOps' = nOps + 1

\* resetCalibration; the user answers the confirm dialog
ResetEditor ==
  /\ Loaded
  /\ nOps < MaxOps
  /\ \E confirm \in BOOLEAN :
       /\ app' = IF confirm
                 THEN [app EXCEPT !.localStorage = NoSaved, !.pointPairs = initialPairs]
                 ELSE app
       /\ store' = IF confirm THEN setCalibration(Sys, NULL).store ELSE store
  /\ nOps' = nOps + 1
  /\ EditorStep("resetCalibration", FALSE, <<>>)

NextEditor ==
  \/ LoadSaved
  \/ AddPointPair
  \/ RemovePointPair
  \/ EditPoint
  \/ ApplyAndSave
  \/ ResetEditor

SpecEditor == InitEditor /\ [][NextEditor]_vars

(***************************************************************************)
(* syncHelpers: createThrottle and createDebounce.  The browser's timer    *)
(* table is app.pending, a set of [id, due, args]; clearTimeout removes    *)
(* the timer with the given id and does nothing for null (0) or for the id *)
(* of a timer that has fired.  A timer never fires before it is due and    *)
(* may fire late.  `closure` holds the variables the wrapper closes over.  *)
(* Specifications SpecThrottle and SpecDebounce call one wrapped function  *)
(* at most MaxCalls times with arguments from HelperArgs; hist.calls lists *)
(* the calls and hist.inv the invocations of fn.  The clock starts at      *)
(* Epoch: Date.now() is far larger than any delay when the page loads.     *)
(***************************************************************************)
throttleDelay == 200     \* ms, ForgeViewer throttled camera push
Epoch         == 1000    \* Date.now() of the first step
HelperArgs    == {1, 2}

InitTimers == [pending |-> {}, nextId |-> 1]

setTimeoutId(tm, due, args) ==
  [ pending |-> tm.pending \cup {[id |-> tm.nextId, due |-> due, args |-> args]},
    nextId  |-> tm.nextId + 1 ]

clearTimeoutId(tm, id) == [tm EXCEPT !.pending = {x \in @ : x.id # id}]

\* Mutant of throttled: the pending trailing timer is not cleared.
throttledKeepTimer(c, tm, t, delay, args) ==
  IF t - c.lastCall >= delay
  THEN [c |-> [c EXCEPT !.lastCall = t], tm |-> tm, fn |-> <<args>>]
  ELSE [c  |-> [c EXCEPT !.timeout = tm.nextId],
        tm |-> setTimeoutId(tm, t + (delay - (t - c.lastCall)), <<args>>),
        fn |-> <<>>]

\* createThrottle: the function it returns, called at time t.  fn is <<args>>
\* when fn is invoked now, <<>> otherwise.
throttled(c, tm, t, delay, args) ==
  IF t - c.lastCall >= delay
  THEN [c  |-> [c EXCEPT !.lastCall = t],
        tm |-> clearTimeoutId(tm, c.timeout),
        fn |-> <<args>>]
  ELSE Let(clearTimeoutId(tm, c.timeout), LAMBDA cleared :
         [c  |-> [c EXCEPT !.timeout = cleared.nextId],
          tm |-> setTimeoutId(cleared, t + (delay - (t - c.lastCall)), <<args>>),
          fn |-> <<>>])

\* createThrottle: the trailing timer's callback, run at time t
throttleLater(c, t) == [c EXCEPT !.lastCall = t]

\* Mutant of debounced: the pending timer is not cleared.
debouncedKeepTimer(c, tm, t, delay, args) ==
  [c  |-> [c EXCEPT !.lastArgs = <<args>>, !.timeout = tm.nextId],
   tm |-> setTimeoutId(tm, t + delay, <<>>),
   fn |-> IF c.immediate /\ c.timeout = 0 THEN <<args>> ELSE <<>>]

\* createDebounce: the function it returns, called at time t
debounced(c, tm, t, delay, args) ==
  Let(clearTimeoutId(tm, c.timeout), LAMBDA cleared :
    [c  |-> [c EXCEPT !.lastArgs = <<args>>, !.timeout = cleared.nextId],
     tm |-> setTimeoutId(cleared, t + delay, <<>>),
     fn |-> IF c.immediate /\ c.timeout = 0 THEN <<args>> ELSE <<>>])

\* createDebounce: later
later(c) ==
  [c  |-> [c EXCEPT !.timeout = 0],
   fn |-> IF ~c.immediate THEN c.lastArgs ELSE <<>>]

Invoked(h, fn, by) ==
  IF fn = <<>> THEN h
  ELSE [h EXCEPT !.inv = Append(@, [at |-> now, arg |-> fn[1], by |-> by,
                                    ncalls |-> Len(h.calls)])]

Called(h, arg) == [h EXCEPT !.calls = Append(@, [at |-> now, arg |-> arg])]

InitHelper(c) ==
  /\ store = InitStore
  /\ closure = c
  /\ frames = {}
  /\ now = Epoch
  /\ frameTime = -1
  /\ three = "modern"
  /\ forge = InitForge(0)
  /\ pano = InitPano(0, FALSE)
  /\ app = InitTimers
  /\ nOps = 0
  /\ lastOp = [name |-> "init"]
  /\ hist = [calls |-> <<>>, inv |-> <<>>]

\* time passes between two tasks
AdvanceClock ==
  /\ now < Epoch + MaxClock * ClockStep
  /\ now' = now + ClockStep
  /\ lastOp' = [name |-> "time"]
  /\ UNCHANGED <<store, closure, frames, frameTime, three, forge, pano, app, nOps, hist>>

InitThrottle == InitHelper([lastCall |-> 0, timeout |-> 0])

ThrottledCall ==
  /\ nOps < MaxCalls
  /\ \E arg \in HelperArgs :
       LET r == throttled(closure, app, now, throttleDelay, arg) IN
         /\ closure' = r.c
         /\ app' = r.tm
         /\ hist' = Invoked(Called(hist, arg), r.fn, "call")
         /\ lastOp' = [name |-> "throttled", arg |-> arg]
  /\ nOps' = nOps + 1
  /\ UNCHANGED <<store, frames, now, frameTime, three, forge, pano>>

ThrottleTimer ==
  /\ \E tmr \in app.pending :
       /\ tmr.due <= now
       /\ app' = [app EXCEPT !.pending = @ \ {tmr}]
       /\ closure' = throttleLater(closure, now)
       /\ hist' = Invoked(hist, tmr.args, "timer")
       /\ lastOp' = [name |-> "throttleTimer", arg |-> tmr.args[1]]
  /\ UNCHANGED <<store, frames, now, frameTime, three, forge, pano, nOps>>

NextThrottle ==
  \/ ThrottledCall
  \/ ThrottleTimer
  \/ AdvanceClock

SpecThrottle == InitThrottle /\ [][NextThrottle]_vars

InitDebounce ==
  \E immediate \in BOOLEAN :
    InitHelper([timeout |-> 0, lastArgs |-> <<>>, immediate |-> immediate])

DebouncedCall ==
  /\ nOps < MaxCalls
  /\ \E arg \in HelperArgs :
       LET r == debounced(closure, app, now, debounceDelay, arg) IN
         /\ closure' = r.c
         /\ app' = r.tm
         /\ hist' = Invoked(Called(hist, arg), r.fn, "call")
         /\ lastOp' = [name |-> "debounced", arg |-> arg]
  /\ nOps' = nOps + 1
  /\ UNCHANGED <<store, frames, now, frameTime, three, forge, pano>>

DebounceTimer ==
  /\ \E tmr \in app.pending :
       /\ tmr.due <= now
       /\ app' = [app EXCEPT !.pending = @ \ {tmr}]
       /\ closure' = later(closure).c
       /\ hist' = Invoked(hist, later(closure).fn, "timer")
       /\ lastOp' = [name |-> "later"]
  /\ UNCHANGED <<store, frames, now, frameTime, three, forge, pano, nOps>>

NextDebounce ==
  \/ DebouncedCall
  \/ DebounceTimer
  \/ AdvanceClock

SpecDebounce == InitDebounce /\ [][NextDebounce]_vars

(***************************************************************************)
(* Specification SpecNearest: the nearest-point lookup of the Forge -> Pano *)
(* sync effect on its own.  The conditioned path is any sequence of 1 to   *)
(* MaxNear points with coordinates 0 or 1 m, the query any position with   *)
(* coordinates 0, 0.5 or 1 m: paths with repeated points and queries at    *)
(* equal distance from several points are among them.  lastOp.panoPos is    *)
(* the query and pano.pathIndexRef the index the lookup stored.            *)
(***************************************************************************)
NearCoords == {0, 10000}
NearPoints == {<<x, y, z>> : x \in NearCoords, y \in NearCoords, z \in NearCoords}
NearPaths == UNION {[1..n -> NearPoints] : n \in 1..MaxNear}
NearQueries == {<<x, y, z>> : x \in {0, 5000, 10000}, y \in {0, 5000, 10000},
                               z \in {0, 5000, 10000}}

InitNearest ==
  \E points \in NearPaths :
    /\ store = InitStore
    /\ closure = InitClosure
    /\ frames = {}
    /\ now = 0
    /\ frameTime = -1
    /\ three = "modern"
    /\ forge = InitForge(0)
    /\ pano = [dataRef |-> <<>>, cameraPathRef |-> points] @@ InitPano(0, FALSE)
    /\ app = InitApp(0)
    /\ nOps = 0
    /\ lastOp = [name |-> "init"]
    /\ hist = InitHist

\* const points = cameraPathRef.current; ...; pathIndexRef.current = closestIdx
NearestLookup ==
  /\ \E panoPos \in NearQueries :
       /\ pano' = [pano EXCEPT !.pathIndexRef = closestIdx(pano.cameraPathRef, panoPos)]
       /\ lastOp' = [name |-> "closest", panoPos |-> panoPos]
  /\ UNCHANGED <<store, closure, frames, now, frameTime, three, forge, app, nOps, hist>>

NextNearest == NearestLookup

SpecNearest == InitNearest /\ [][NextNearest]_vars

(***************************************************************************)
(* Specification SpecExplorer: PathCameraExplorer alone, from its mount    *)
(* with the dataset request pending.  The response arrives and the scene   *)
(* and the path are built; then the user moves along the path, a parent    *)
(* calls jumpToIndex, a filter setting changes (rebuildPaths), a Forge     *)
(* pose is reported (the Forge -> Pano effect), and the browser completes  *)
(* the pending texture loads in any order.  pathIndexRef counts from 1, as *)
(* everywhere in this module: the source's index is pathIndexRef - 1.  A   *)
(* texture is the object one load has produced: [img, id].  The effect on  *)
(* pathIndexRef.current runs after every handler that has changed it and   *)
(* before the next event.  No animation frame is delivered and no time     *)
(* passes.                                                                 *)
(***************************************************************************)
Texture(img, id) == [shape |-> "texture", img |-> img, id |-> id]

InitTextures ==
  [ sphere       |-> FALSE,    \* panoramaSphereRef.current is set
    textureCache |-> {},       \* the values of textureCache.current
    map          |-> NULL,     \* panoramaSphereRef.current.material.map
    disposed     |-> {},       \* textures on which dispose() was called
    loads        |-> {},       \* loads the TextureLoader has not completed
    nextTex      |-> 1,
    effectDep    |-> 1 ]       \* pathIndexRef.current at the last run of the effect

cachedTexture(p, img) == {t \in p.textureCache : t.img = img}

\* material.map.dispose() when a map is set, then material.map = tex
showTexture(p, tex) ==
  [p EXCEPT !.disposed = IF p.map # NULL THEN @ \cup {p.map} ELSE @,
            !.map = tex]

updatePanoramaTexture(p, imagePath) ==
  IF ~p.sphere \/ imagePath = NULL THEN p
  ELSE IF cachedTexture(p, imagePath) # {}
  THEN showTexture(p, CHOOSE t \in cachedTexture(p, imagePath) : TRUE)
  ELSE [p EXCEPT !.loads = @ \cup {Texture(imagePath, p.nextTex)},
                 !.nextTex = @ + 1]

\* the onLoad callback of textureLoader.load
onLoad(p, tex) ==
  Let([p EXCEPT !.loads = @ \ {tex},
                !.textureCache = (@ \ cachedTexture(p, tex.img)) \cup {tex}], LAMBDA q :
    IF q.sphere THEN showTexture(q, tex) ELSE q)

\* Mutant of jumpToIndex: the test of the range is missing.
jumpToIndexUnchecked(pathIndex, idx, length) == [ran |-> TRUE, index |-> idx + 1]

\* jumpToIndex(idx): whether it passes the test of the range, and the new
\* pathIndexRef
jumpToIndex(pathIndex, idx, length) ==
  IF idx < 0 \/ idx >= length THEN [ran |-> FALSE, index |-> pathIndex]
  ELSE [ran |-> TRUE, index |-> idx + 1]

\* Math.max(0, Math.min(pathIndexRef.current + delta, length - 1))
moveIndex(pathIndex, delta, length) ==
  Let((IF (pathIndex - 1) + delta < length - 1 THEN (pathIndex - 1) + delta
       ELSE length - 1), LAMBDA m : (IF m > 0 THEN m ELSE 0) + 1)

\* rebuildPaths() of the component: the path, the index, the texture
rebuildPathsOf(p, random) ==
  IF Len(p.dataRef) = 0 THEN p
  ELSE Let(rebuildPaths(p.dataRef, random), LAMBDA fixed :
         Let(IF p.pathIndexRef < Len(fixed) THEN p.pathIndexRef ELSE Len(fixed), LAMBDA idx :
           Let([p EXCEPT !.cameraPathRef = fixed, !.pathIndexRef = idx], LAMBDA q :
             IF Len(fixed) > 0 THEN updatePanoramaTexture(q, fixed[idx].image_path)
             ELSE q)))

PathFrames ==
  << [position |-> [x |-> 0, y |-> 16000, z |-> 600], image_path |-> Image(1)],
     [pos |-> [X |-> 600, Y |-> 16000, Z |-> 0], image |-> Image(2)],
     [coordinates |-> array(600, 16000, 600)] >>

PathResponses ==
  { [kind |-> "notOk", frames |-> <<>>],
    [kind |-> "frames", frames |-> <<PathFrames[1]>>],
    [kind |-> "frames", frames |-> <<PathFrames[2], PathFrames[3], PathFrames[1]>>],
    [kind |-> "frames", frames |-> <<PathFrames[1], PathFrames[2], PathFrames[1]>>] }

InitExplorer ==
  \E response \in PathResponses :
    /\ store = InitStore
    /\ closure = InitClosure
    /\ frames = {}
    /\ now = 0
    /\ frameTime = -1
    /\ three = "modern"
    /\ forge = InitForge(1)
    /\ pano = [dataRef |-> <<>>, cameraPathRef |-> <<>>] @@ InitTextures
                @@ InitPano(1, FALSE)
    /\ app = InitApp(1)
    /\ nOps = 0
    /\ lastOp = [name |-> "fetch", response |-> response, idx |-> 0, before |-> 1]
    /\ hist = InitHist

ExplorerStep(name, idx) ==
  /\ lastOp' = [name |-> name, response |-> lastOp.response, idx |-> idx,
                before |-> pano.pathIndexRef]
  /\ UNCHANGED <<now, frameTime, three, forge, hist>>

TextureEffectFlushed == pano.effectDep = pano.pathIndexRef

\* the response arrives: dataRef.current = pts; initScene(); rebuildPaths()
PathLoad ==
  /\ ~pano.sphere
  /\ \E r \in {0}, dir \in RandomDirs :
       LET pts == loadPoints(lastOp.response, r)
           q == rebuildPathsOf([pano EXCEPT !.dataRef = pts, !.sphere = TRUE],
                               [i \in 1..Len(pts) |-> dir])
       IN /\ pano' = q
          /\ Commit(setCurrentPanoIndex(Sys, q.pathIndexRef - 1))
  /\ ExplorerStep("loadData", 0)
  /\ UNCHANGED <<app, nOps>>

\* initScene has run: cameraRef.current and panoramaSphereRef.current are set
Mounted == pano.sphere

\* a filter setting changes: the effect calls rebuildPaths()
PathRebuild ==
  /\ Mounted
  /\ TextureEffectFlushed
  /\ nOps < MaxOps
  /\ \E dir \in RandomDirs :
       LET q == rebuildPathsOf(pano, [i \in 1..Len(pano.dataRef) |-> dir])
       IN /\ pano' = q
          /\ Commit(setCurrentPanoIndex(Sys, q.pathIndexRef - 1))
  /\ nOps' = nOps + 1
  /\ ExplorerStep("rebuildPaths", 0)
  /\ UNCHANGED app

\* move(delta)
PathMove ==
  /\ TextureEffectFlushed
  /\ nOps < MaxOps
  /\ \E delta \in {-1, 1} :
       LET newIdx == moveIndex(pano.pathIndexRef, delta, Len(pano.cameraPathRef))
           moved == newIdx # pano.pathIndexRef
           newPoint == pano.dataRef[newIdx]
       IN /\ pano' = IF moved
                     THEN updatePanoramaTexture([pano EXCEPT !.pathIndexRef = newIdx],
                                                pano.cameraPathRef[newIdx].image_path)
                     ELSE pano
          /\ Commit(IF moved
                    THEN setCurrentPanoIndex(
                           setPanoCam(Sys, Arr(<<newPoint.x, newPoint.y, newPoint.z>>),
                                      pano.currentPOVRef),
                           newIdx - 1)
                    ELSE Sys)
          /\ ExplorerStep("move", delta)
  /\ nOps' = nOps + 1
  /\ UNCHANGED app

\* ref.current.jumpToIndex(idx).  Were cameraPathRef.current[idx] undefined,
\* the read of p.image_path would throw after the index has been written.
PathJump ==
  /\ TextureEffectFlushed
  /\ nOps < MaxOps
  /\ \E idx \in -1..(Len(pano.cameraPathRef) + 1) :
       LET j == jumpToIndex(pano.pathIndexRef, idx, Len(pano.cameraPathRef))
           throws == j.index \notin DOMAIN pano.cameraPathRef
       IN /\ pano' = IF ~j.ran THEN pano
                     ELSE IF throws THEN [pano EXCEPT !.pathIndexRef = j.index]
                     ELSE updatePanoramaTexture([pano EXCEPT !.pathIndexRef = j.index],
                                                pano.cameraPathRef[j.index].image_path)
          /\ Commit(IF j.ran /\ ~throws THEN setCurrentPanoIndex(Sys, idx) ELSE Sys)
          /\ ExplorerStep("jumpToIndex", idx)
  /\ nOps' = nOps + 1
  /\ UNCHANGED app

\* setForgeCam(pos, quat), then the Forge -> Pano effect
PathSync ==
  /\ TextureEffectFlushed
  /\ nOps < MaxOps
  /\ \E f \in Poses :
       LET s0 == setForgeCam(Sys, f.pos, f.quat)
           calib == pano.calibrationRef
           points == [i \in 1..Len(pano.cameraPathRef) |->
                        <<pano.cameraPathRef[i].x, pano.cameraPathRef[i].y,
                          pano.cameraPathRef[i].z>>]
           run == Mounted /\ ~store.isSyncing /\ calib.shape # "null"
           token == freshToken(pano.lastProgrammaticTokenPano, app.timers, "panoToken")
           idx == closestIdx(points, forgeToPano(f.pos.c, calib))
           panoQuat == normalize(multiply(reverseTransform(f.quat), YAW_MINUS_90))
           p == pano.cameraPathRef[idx]
       IN /\ pano' = IF run
                     THEN updatePanoramaTexture(
                            [pano EXCEPT !.lastProgrammaticTokenPano = token,
                                         !.pathIndexRef = idx,
                                         !.currentPOVRef = panoQuat],
                            p.image_path)
                     ELSE pano
          /\ app' = IF run
                    THEN [app EXCEPT !.timers =
                            setTimeout(@, "panoToken", now + panoTokenDelay, token)]
                    ELSE app
          /\ Commit(IF run
                    THEN smoothSyncPano(setCurrentPanoIndex(s0, idx - 1),
                                        Arr(<<p.x, PATH_HEIGHT, p.z>>), panoQuat, now)
                    ELSE s0)
          /\ ExplorerStep("panoSyncEffect", 0)
  /\ nOps' = nOps + 1

\* the effect on pathIndexRef.current
TextureEffect ==
  /\ ~TextureEffectFlushed
  /\ pano' = updatePanoramaTexture([pano EXCEPT !.effectDep = pano.pathIndexRef],
                                   pano.cameraPathRef[pano.pathIndexRef].image_path)
  /\ ExplorerStep("textureEffect", 0)
  /\ UNCHANGED <<store, closure, frames, app, nOps>>

\* a texture load completes
TextureLoaded ==
  /\ TextureEffectFlushed
  /\ \E tex \in pano.loads : pano' = onLoad(pano, tex)
  /\ ExplorerStep("onLoad", 0)
  /\ UNCHANGED <<store, closure, frames, app, nOps>>

NextExplorer ==
  \/ PathLoad
  \/ PathRebuild
  \/ PathMove
  \/ PathJump
  \/ PathSync
  \/ TextureEffect
  \/ TextureLoaded

SpecExplorer == InitExplorer /\ [][NextExplorer]_vars

(***************************************************************************)
(* Specification SpecNav: the three ForgeViewer handlers that set          *)
(* isSyncing, with navigation calls that may throw.  A handler makes five  *)
(* calls on the viewer (toPerspective, setPosition, setTarget, up.set,     *)
(* sceneUpdated); throwsAt is the call that throws, 0 when none does.  The *)
(* camera has the position once setPosition has returned and the           *)
(* orientation once setTarget has.  The viewer is ready and a calibration  *)
(* is loaded; each step is one run of a handler from its trigger (a floor  *)
(* click, a new panoCam, a call of window.navigateToCalibratedPosition)    *)
(* to its return.  lastOp.thrown says the handler ended with an exception. *)
(***************************************************************************)
NavCalls == 5

navigate(camera, pos, quat, throwsAt) ==
  [ camera |-> [pos  |-> IF throwsAt \in {1, 2} THEN camera.pos ELSE pos,
                quat |-> IF throwsAt \in {1, 2, 3} THEN camera.quat ELSE quat],
    thrown |-> throwsAt # 0 ]

\* try { setIsSyncing(true); ... } catch (e) { ... } finally { setIsSyncing(false) }
tryNavigate(s, camera, pos, quat, throwsAt) ==
  [ sys    |-> setIsSyncing(setIsSyncing(s, TRUE), FALSE),
    camera |-> navigate(camera, pos, quat, throwsAt).camera,
    thrown |-> FALSE ]

\* navigateToCalibratedPosition: setIsSyncing(true); ...; setIsSyncing(false)
navigateToCalibratedPosition(s, camera, pos, throwsAt) ==
  Let(navigate(camera, pos, LOOK_MINUS_Y, throwsAt), LAMBDA r :
    [ sys    |-> IF r.thrown THEN setIsSyncing(s, TRUE)
                 ELSE setIsSyncing(setIsSyncing(s, TRUE), FALSE),
      camera |-> r.camera,
      thrown |-> r.thrown ])

InitNav ==
  /\ store = [InitStore EXCEPT !.calibration = loadCalibration(1)]
  /\ closure = InitClosure
  /\ frames = {}
  /\ now = 0
  /\ frameTime = -1
  /\ three = "modern"
  /\ forge = [viewerReady |-> TRUE, lastHandledClickSeqRef |-> 0] @@ InitForge(1)
  /\ pano = InitPano(1, FALSE)
  /\ app = InitApp(1)
  /\ nOps = 0
  /\ lastOp = [name |-> "mount", throwsAt |-> 0, thrown |-> FALSE]
  /\ hist = InitHist

\* pushFloorClick(pos), then the floor-click effect
NavFloorClick ==
  /\ nOps < MaxOps
  /\ \E pos \in ClickPositions, throwsAt \in 0..NavCalls :
       LET s0 == pushFloorClick(Sys, pos, now)
           fc == s0.store.floorClick
           r  == tryNavigate(s0, forge.camera, panoToForge(fc.pos.c, forge.calibration),
                             LOOK_MINUS_Y, throwsAt)
       IN /\ Commit(r.sys)
          /\ forge' = [forge EXCEPT !.camera = r.camera, !.lastHandledClickSeqRef = fc.seq]
          /\ lastOp' = [name |-> "floorClickEffect", throwsAt |-> throwsAt,
                        thrown |-> r.thrown]
  /\ nOps' = nOps + 1
  /\ UNCHANGED <<now, frameTime, three, pano, app, hist>>

\* setPanoCam(pos, quat), then the main sync effect
NavMainSync ==
  /\ nOps < MaxOps
  /\ \E p \in Poses, throwsAt \in 0..NavCalls :
       LET s0 == setPanoCam(Sys, p.pos, p.quat)
           panoCam == s0.store.panoCam
           run == /\ ~store.isSyncing
                  /\ panoCam.pos.shape = "arr"
                  /\ ~panoCam.quat.nan
           token == freshToken(forge.lastProgrammaticTokenRef, app.timers, "forgeToken")
           f == panoToForge(panoCam.pos.c, forge.calibration)
           r == tryNavigate(s0, forge.camera, <<f[1], f[2], forge.camera.pos[3]>>,
                            multiply(transformQuaternion(panoCam.quat), pitchDown90),
                            throwsAt)
       IN /\ Commit(IF run THEN r.sys ELSE s0)
          /\ forge' = IF run
                      THEN [forge EXCEPT !.camera = r.camera,
                                         !.lastProgrammaticTokenRef = token]
                      ELSE forge
          /\ app' = IF run
                    THEN [app EXCEPT !.timers =
                            setTimeout(@, "forgeToken", now + forgeTokenDelay, token)]
                    ELSE app
          /\ lastOp' = [name |-> "forgeSyncEffect", throwsAt |-> throwsAt,
                        thrown |-> FALSE]
  /\ nOps' = nOps + 1
  /\ UNCHANGED <<now, frameTime, three, pano, hist>>

\* window.navigateToCalibratedPosition(x, y, z)
NavigateToCalibratedPosition ==
  /\ nOps < MaxOps
  /\ \E pos \in ClickPositions, throwsAt \in 0..NavCalls :
       LET r == navigateToCalibratedPosition(Sys, forge.camera, pos.c, throwsAt)
       IN /\ Commit(r.sys)
          /\ forge' = [forge EXCEPT !.camera = r.camera]
          /\ lastOp' = [name |-> "navigateToCalibratedPosition", throwsAt |-> throwsAt,
                        thrown |-> r.thrown]
  /\ nOps' = nOps + 1
  /\ UNCHANGED <<now, frameTime, three, pano, app, hist>>

NextNav ==
  \/ NavFloorClick
  \/ NavMainSync
  \/ NavigateToCalibratedPosition

SpecNav == InitNav /\ [][NextNav]_vars

(***************************************************************************)
(* Properties of the viewers and the calibration editor (SpecSync).        *)
(***************************************************************************)
\* C1: loop prevention.  While a programmatic update that follows an accepted
\* report of viewer A is in force at viewer B (B's token is live), `source`
\* changes from A to B only if the user moved B after A's report.
C1_NoEchoWithinWindow ==
  [][ \A B \in {"pano", "forge"} :
        ( /\ store.source = Other(B)
          /\ store'.source = B
          /\ hist'.progLive[B] )
        => hist.userMoved[B] ]_vars

\* C2: while a viewer's programmatic-update token is live, a pose report of
\* that viewer (onCameraChange; debouncedSync, onMove, move) changes none of
\* source, panoCam, forgeCam, panoPosition, forgePosition, syncCount, the
\* target poses and isAnimating.
ViewerReportNames == {"onCameraChange", "debouncedSync", "onMove", "move"}

C2_LiveTokenDropsReports ==
  [][ (lastOp'.name \in ViewerReportNames /\ lastOp'.tokenLive)
      => /\ store'.source = store.source
         /\ store'.panoCam = store.panoCam
         /\ store'.forgeCam = store.forgeCam
         /\ store'.panoPosition = store.panoPosition
         /\ store'.forgePosition = store.forgePosition
         /\ store'.syncCount = store.syncCount
         /\ store'.targetPanoPose = store.targetPanoPose
         /\ store'.targetForgePose = store.targetForgePose
         /\ store'.isAnimating = store.isAnimating ]_vars

\* C10: once the user has applied or reset the calibration, every position
\* transform a viewer performs uses the calibration last applied, and no
\* viewer transforms after a reset.
C10_TransformUsesApplied ==
  [][ ( /\ lastOp'.name \in {"forgeSyncEffect", "panoSyncEffect"}
        /\ lastOp'.transformed
        /\ hist.applied.done )
      => lastOp'.calib = hist.applied.calib ]_vars


(***************************************************************************)
(* Properties of the store (specification Spec).                           *)
(***************************************************************************)
SmoothNames == {"smoothSyncPano", "smoothSyncForge"}

storedPos(st, v) == IF v = "pano" THEN st.panoPosition ELSE st.forgePosition
storedQuat(st, v) == IF v = "pano" THEN st.panoCam.quat ELSE st.forgeCam.quat
targetPose(st, v) == IF v = "pano" THEN st.targetPanoPose ELSE st.targetForgePose

\* The reported pose numerically differs from the stored one by less than
\* the noise thresholds, whatever JavaScript shape the stored one has.
withinNoise(pos, quat, sPos, sQuat) ==
  /\ \A i \in 1..3 : Abs(pos.c[i] - sPos.c[i]) < vectorTolerance
  /\ ~quat.nan
  /\ ~sQuat.nan
  /\ \A i \in 1..4 : Abs(quat.c[i] - sQuat.c[i]) < quatTolerance

posesUnchanged ==
  /\ store'.panoPosition = store.panoPosition
  /\ store'.panoCam = store.panoCam
  /\ store'.forgePosition = store.forgePosition
  /\ store'.forgeCam = store.forgeCam

\* C3: a smoothSyncPano / smoothSyncForge report from the current authority
\* whose pose is within the noise thresholds of the stored pose changes no
\* store field and schedules or cancels no animation tick.
C3_NoiseReportIsNoOp ==
  [][ ( /\ lastOp'.name \in SmoothNames
        /\ store.source = lastOp'.viewer
        /\ withinNoise(lastOp'.pos, lastOp'.quat,
                       storedPos(store, lastOp'.viewer), storedQuat(store, lastOp'.viewer)) )
      => UNCHANGED <<store, closure, frames>> ]_vars

\* C4: every accepted smoothSyncPano / smoothSyncForge report makes the
\* reporter the source, adds exactly 1 to syncCount, stores the reported pose
\* as the reporter's target, sets isAnimating with syncStartTime = now, and
\* leaves exactly one pending tick, the reporter's.
C4_AcceptedReportEffects ==
  [][ ( /\ lastOp'.name \in SmoothNames
        /\ IF lastOp'.viewer = "pano"
           THEN changedPano(store, lastOp'.pos, lastOp'.quat)
           ELSE changedForge(store, lastOp'.pos, lastOp'.quat) )
      => /\ store'.source = lastOp'.viewer
         /\ store'.syncCount = store.syncCount + 1
         /\ targetPose(store', lastOp'.viewer) = [pos |-> lastOp'.pos, quat |-> lastOp'.quat]
         /\ store'.isAnimating
         /\ store'.syncStartTime = now
         /\ frames' = {[id |-> closure'.rafId, isForge |-> lastOp'.viewer = "forge"]} ]_vars

C4_Witness ==
  /\ lastOp.name \in SmoothNames
  /\ lastOp.accepted
  /\ store.source = lastOp.viewer
  /\ store.syncCount > 0
  /\ frames # {}

\* C5 as claimed: no operation decreases syncCount, and every accepted
\* external pose update and every viewer report strictly increases it.
PoseUpdateNames ==
  { "fromPanoCam", "fromForgeCam", "fromPanoPosition", "fromForgePosition",
    "smoothSyncPano", "smoothSyncForge", "applyPanoPose", "applyForgePose" }
ReportNames == {"forgeReport", "panoReport"}

C5_SyncCountMonotonic ==
  [][ /\ store'.syncCount >= store.syncCount
      /\ (lastOp'.name \in PoseUpdateNames /\ lastOp'.accepted)
           => store'.syncCount > store.syncCount
      /\ lastOp'.name \in ReportNames => store'.syncCount > store.syncCount ]_vars

\* C5 amended: resetSyncCount sets syncCount to 0 and no other operation
\* decreases it; every accepted external pose update adds exactly 1; a viewer
\* report adds exactly 1 when its smooth sync accepts the pose and leaves the
\* counter alone otherwise.
C5_SyncCountExceptReset ==
  [][ /\ lastOp'.name = "resetSyncCount" => store'.syncCount = 0
      /\ lastOp'.name # "resetSyncCount" => store'.syncCount >= store.syncCount
      /\ (lastOp'.name \in PoseUpdateNames \cup ReportNames /\ lastOp'.accepted)
           => store'.syncCount = store.syncCount + 1
      /\ (lastOp'.name \in ReportNames /\ ~lastOp'.accepted)
           => store'.syncCount = store.syncCount ]_vars

C5_Witness ==
  /\ lastOp.name = "resetSyncCount"
  /\ store.syncCount = 0
  /\ store.source # "null"
  /\ hist.adoptSeq > 0

\* C6: once a newer pose adoption has been accepted, no tick of the earlier
\* interpolation writes panoPosition, panoCam, forgePosition or forgeCam.
C6_NoStaleTickWrites ==
  [][ (lastOp'.name = "animateSync" /\ hist.chainGen < hist.adoptSeq)
      => posesUnchanged ]_vars

\* C7: at most one tick is pending, it belongs to the viewer of the most
\* recently accepted report and that viewer's target is the reported pose; an
\* accepted report replaces the target and changes no stored pose (the
\* earlier interpolation is neither completed nor rolled back).
C7_OnePendingTick ==
  [][ /\ Cardinality(frames') <= 1
      /\ \A f \in frames' :
           /\ f.isForge = (hist'.lastAccepted.viewer = "forge")
           /\ targetPose(store', hist'.lastAccepted.viewer)
                = [pos |-> hist'.lastAccepted.pos, quat |-> hist'.lastAccepted.quat]
      /\ (lastOp'.name \in SmoothNames /\ lastOp'.accepted)
           => /\ store'.panoPosition = store.panoPosition
              /\ store'.forgePosition = store.forgePosition
              /\ store'.panoCam = store.panoCam
              /\ store'.forgeCam = store.forgeCam
              /\ Cardinality(frames') = 1 ]_vars

C7_Witness ==
  /\ lastOp.name \in SmoothNames
  /\ lastOp.accepted
  /\ lastOp.midflight
  /\ hist.adoptSeq >= 2
  /\ Cardinality(frames) = 1

\* C8: on every tick that writes a position, each written component is the
\* linear interpolation between the stored value of that same axis and the
\* target value of that axis.
C8_LerpPerAxis ==
  [][ (lastOp'.name = "animateSync" /\ frames' # {})
      => \A i \in 1..3 :
           storedPos(store', lastOp'.viewer).c[i]
             = lerp(storedPos(store, lastOp'.viewer).c[i],
                    targetPose(store, lastOp'.viewer).pos.c[i], lastOp'.t) ]_vars

\* C9: the interpolation parameter of every tick that changes the store is
\* within [0, 1], that is 0 <= e <= DURATION in milliseconds.
C9_ParameterClamped ==
  [][ (lastOp'.name = "animateSync" /\ store' # store)
      => (0 <= lastOp'.t /\ lastOp'.t <= DURATION) ]_vars

C9_Witness ==
  /\ lastOp.name = "animateSync"
  /\ lastOp.ran
  /\ lastOp.e > DURATION
  /\ ~store.isAnimating

(***************************************************************************)
(* Properties of the calibration solvers (SpecCalib).                      *)
(***************************************************************************)
\* C11: for every calibration calculateCalibration returns and every point
\* p, forgeToPano(panoToForge(p, calibration), calibration) is p again (to
\* within the store's position tolerance).
C11_RoundTrip ==
  lastOp.name = "forgeToPano" =>
    \A i \in 1..3 : Abs(lastOp.result[i] - lastOp.p[i]) < vectorTolerance

\* C13: a solve with fewer than 3 pairs fails with an error and returns no
\* transform, in calculateCalibration and in computeTransform, and no viewer
\* holds a calibration computed from fewer than 3 pairs.
C13_FewPairsFail ==
  /\ (lastOp.name \in {"calculateCalibration", "computeTransform"} /\ lastOp.n < 3)
       => lastOp.result.shape = "error"
  /\ forge.calibration # NULL => Len(PairLists[app.localStorage]) >= 3
  /\ pano.calibrationRef # NULL => Len(PairLists[app.localStorage]) >= 3

nonCollinear(pts) ==
  \E i, j \in 1..Len(pts) :
    LET u == <<pts[i][1] - pts[1][1], pts[i][2] - pts[1][2], pts[i][3] - pts[1][3]>>
        v == <<pts[j][1] - pts[1][1], pts[j][2] - pts[1][2], pts[j][3] - pts[1][3]>>
    IN \/ u[2] * v[3] - u[3] * v[2] # 0
       \/ u[3] * v[1] - u[1] * v[3] # 0
       \/ u[1] * v[2] - u[2] * v[1] # 0

properRotation(R) == mmul(R, transpose(R)) = I3 /\ det(R) = 1

sameRotation(q1, q2) ==
  \/ quatEqual(q1, q2)
  \/ quatEqual(q1, Quat(<<-q2.c[1], -q2.c[2], -q2.c[3], -q2.c[4]>>))

\* C12: forgeToPanoQuaternion undoes the three forward operators
\* (calibration quaternion, +90 degrees pitch, half turn) in reversed order,
\* each by its inverse: applied to the forward-transformed orientation of a
\* unit quaternion q it returns q.
C12_InverseReturnsQ ==
  lastOp.forward = <<"calibration", "pitch", "flip", "inverse">>
    => sameRotation(lastOp.result, pano.currentPOVRef)

(***************************************************************************)
(* Properties of the path conditioner (SpecPath).                          *)
(***************************************************************************)
\* C15: every stage of the path conditioning (savitzkyGolay, the Kalman pass,
\* fixOverlappingPoints, buildManhattanPath) returns as many samples as it
\* was given.
C15_StagesPreserveCount ==
  lastOp.name \in {"savitzkyGolay", "kalman", "fixOverlappingPoints", "buildManhattanPath"}
    => Len(lastOp.result) = Len(lastOp.points)

\* C16: in the output of fixOverlappingPoints(points, minDist) no two
\* consecutive points are closer than minDist (one unit of the fixed point is
\* allowed for rounding).
C16_MinSeparation ==
  lastOp.name = "fixOverlappingPoints"
    => \A i \in 1..(Len(lastOp.result) - 1) :
         sqDist(lastOp.result[i], lastOp.result[i + 1])
           >= (lastOp.minDist - 1) * (lastOp.minDist - 1)

\* C17: after rebuildPaths the path has one point per raw sample and point i
\* carries the image reference of raw sample i (or null), also where the
\* repair of overlapping points replaced the point.
C17_ImageOfRawSample ==
  lastOp.name = "rebuildPaths"
    => /\ Len(pano.cameraPathRef) = Len(pano.dataRef)
       /\ \A i \in 1..Len(pano.cameraPathRef) :
            pano.cameraPathRef[i].image_path = pano.dataRef[i].image_path

\* rebuildPaths has run on a dataset with a sample without image, and the
\* repair replaced a point whose sample has an image
C17_Witness ==
  /\ lastOp.name = "rebuildPaths"
  /\ \E i \in 1..Len(pano.dataRef) : pano.dataRef[i].image_path = NULL
  /\ \E i \in 1..Len(pano.cameraPathRef) :
       /\ "yaw" \notin DOMAIN pano.cameraPathRef[i]
       /\ pano.cameraPathRef[i].image_path = Image(i)

C19_SingularReturnsInput ==
  /\ lastOp.name = "savitzkyGolay"
  /\ lastOp.polyOrder >= lastOp.windowSize + (IF lastOp.windowSize % 2 = 0 THEN 1 ELSE 0)
  => lastOp.result = lastOp.points

(***************************************************************************)
(* Properties of the boundary guard (SpecBoundary).                        *)
(***************************************************************************)
\* C20: clampToBoundary is idempotent: a point inside the polygon is returned
\* unchanged with wasClamped = false, and clamping the result of
\* clampToBoundary(p) again returns the same coordinates.
C20_ClampIdempotent ==
  /\ lastOp.name = "clampToBoundary" /\ isPointInsideBoundary(lastOp.p.x, lastOp.p.y)
       => lastOp.result = [x |-> lastOp.p.x, y |-> lastOp.p.y, wasClamped |-> FALSE]
  /\ lastOp.name = "clampAgain"
       => lastOp.result.x = lastOp.first.x /\ lastOp.result.y = lastOp.first.y

(***************************************************************************)
(* Properties of the synchronisation paths (SpecSync), continued.          *)
(***************************************************************************)
\* C21: no pose with a component that is not a finite number is applied to
\* a viewer camera or written into a pose field of the store: the
\* orientations of the store's panoCam and forgeCam, of the Forge camera and
\* of the panorama camera are numbers in every reachable state.
C21_NoNonFinitePose ==
  /\ ~store.panoCam.quat.nan
  /\ ~store.forgeCam.quat.nan
  /\ ~forge.camera.quat.nan
  /\ ~pano.currentPOVRef.nan

(***************************************************************************)
(* Properties of the dataset load (SpecLoad).                              *)
(***************************************************************************)
\* the frame carries the coordinate under one of the keys the loader reads
usable(d, lower, upper, index) ==
  has(positionOf(d), lower) \/ has(positionOf(d), upper) \/ has(positionOf(d), index)

\* C22: every coordinate of a loaded waypoint is a coordinate its dataset
\* frame carries: a frame without a usable x, y or z yields no waypoint (the
\* load fails with a validation error instead).
C22_NoDefaultedCoordinate ==
  (lastOp.name = "loadData" /\ lastOp.response.kind = "frames")
    => \A i \in 1..Len(lastOp.response.frames) :
         i <= Len(pano.dataRef)
           => /\ usable(lastOp.response.frames[i], "x", "X", "0")
              /\ usable(lastOp.response.frames[i], "y", "Y", "1")
              /\ usable(lastOp.response.frames[i], "z", "Z", "2")

(***************************************************************************)
(* Properties of the viewers (SpecSync), continued.  lastOp.direct is the  *)
(* set of store fields the step changed through useSyncStore.setState      *)
(* called from a component.                                                *)
(***************************************************************************)
\* C23: single-writer discipline.  Every change of a field of the store, the
\* authority field `source` in particular, is made by one of the store's own
\* actions: no step of a viewer component changes a field by writing the
\* store state directly.
C23_SingleWriter == lastOp.direct = {}

(***************************************************************************)
(* Properties of the floor clicks (SpecClick).                             *)
(***************************************************************************)
\* C24: every floor click is handled exactly once.  The click published last
\* carries the seq floorClickSeq, one more than the click before it, and
\* when every click was published with the viewer ready and a calibration
\* loaded, the jumps performed so far are those of the seqs 1, 2, 3, ... in
\* turn: none is skipped and none is performed twice.
C24_ClickHandledOnce ==
  /\ store.floorClick # NULL => store.floorClick.seq = store.floorClickSeq
  /\ ~hist.unready => \A i \in 1..Len(hist.handled) : hist.handled[i] = i

(***************************************************************************)
(* Properties of the calibration editor (SpecEditor).  A text counts as    *)
(* numeric when it is not empty and starts with a number, which is what    *)
(* parseFloat accepts.                                                     *)
(***************************************************************************)
numericText(c) == c.text \in {"num", "prefixed"}

numericPair(pair) ==
  \A space \in {"revit", "pano"} : \A coord \in 1..3 : numericText(pair[space][coord])

\* C25: the editor's list of pairs has at least 3 entries in every state, and
\* a calibration is applied (on load and on Apply) only from a list of at
\* least 3 pairs whose six coordinates are all numeric, which is then the
\* editor's list.
C25_AtLeastThreePairs ==
  /\ Len(app.pointPairs) >= 3
  /\ lastOp.applied
       => /\ Len(lastOp.from) >= 3
          /\ \A i \in 1..Len(lastOp.from) : numericPair(lastOp.from[i])
          /\ app.pointPairs = lastOp.from
          /\ store.calibration # NULL

\* Apply has dropped a row that was not filled in and applied the rest.
C25_Witness ==
  /\ lastOp.name = "handleApply"
  /\ lastOp.applied
  /\ Len(lastOp.before) > Len(app.pointPairs)
  /\ Len(app.pointPairs) >= 3

(***************************************************************************)
(* Properties of the store (specification Spec), continued.                *)
(***************************************************************************)
SilentField ==
  [ setPanoCam |-> "panoCam", setForgeCam |-> "forgeCam",
    setPanoPosition |-> "panoPosition", setForgePosition |-> "forgePosition" ]

\* C26: a silent setter (setPanoCam, setForgeCam, setPanoPosition,
\* setForgePosition) writes the pose it is given into the one field it names
\* and changes no other field of the store (source, syncCount, lastSyncTime,
\* isAnimating, isSyncing and the target poses among them); it schedules and
\* cancels no animation tick.
C26_SilentSetters ==
  [][ lastOp'.name \in DOMAIN SilentField
      => /\ \A k \in DOMAIN store \ {SilentField[lastOp'.name]} : store'[k] = store[k]
         /\ store'[SilentField[lastOp'.name]] =
              IF lastOp'.name \in {"setPanoCam", "setForgeCam"}
              THEN [pos |-> lastOp'.pos, quat |-> lastOp'.quat]
              ELSE lastOp'.pos
         /\ frames' = frames
         /\ closure' = closure ]_vars

\* a silent setter has written a pose while an interpolation is running
C26_Witness ==
  /\ lastOp.name = "setPanoCam"
  /\ lastOp.midflight
  /\ store.isAnimating
  /\ frames # {}
  /\ store.panoCam = [pos |-> lastOp.pos, quat |-> lastOp.quat]
  /\ store.targetPanoPose # NULL
  /\ store.targetPanoPose.pos # lastOp.pos


(***************************************************************************)
(* Properties of the throttle and debounce helpers.                        *)
(***************************************************************************)
\* C27: for a function wrapped by createThrottle(fn, delay), any two
\* consecutive invocations of fn are at least delay ms apart, and at most one
\* trailing timer is pending at any time (SpecThrottle: every sequence of
\* calls, timer firings and clock steps within the bounds).
C27_ThrottleSpacing ==
  /\ \A i \in 1..(Len(hist.inv) - 1) :
       hist.inv[i + 1].at - hist.inv[i].at >= throttleDelay
  /\ Cardinality(app.pending) <= 1

\* fn has run twice, the second time from a trailing timer that had
\* replaced an earlier one, and a trailing timer is pending again
C27_Witness ==
  /\ Len(hist.inv) >= 2
  /\ hist.inv[2].by = "timer"
  /\ hist.inv[2].ncalls >= 3
  /\ hist.inv[2].arg # hist.calls[2].arg
  /\ app.pending # {}

\* C28: for a function wrapped by createDebounce(fn, delay) with
\* immediate = false, fn is invoked only when delay ms have passed since the
\* most recent call, with the arguments of that call, and at most once for it;
\* as long as the most recent call has not been followed by its invocation
\* exactly one timer is pending, due delay ms after that call, and no timer is
\* pending otherwise.
C28_DebounceBurst ==
  ~closure.immediate =>
    /\ \A i \in 1..Len(hist.inv) :
         /\ hist.inv[i].ncalls >= 1
         /\ hist.inv[i].arg = hist.calls[hist.inv[i].ncalls].arg
         /\ hist.inv[i].at - hist.calls[hist.inv[i].ncalls].at >= debounceDelay
         /\ \A j \in 1..Len(hist.inv) : j # i => hist.inv[j].ncalls # hist.inv[i].ncalls
    /\ IF Len(hist.calls) > 0
          /\ \A i \in 1..Len(hist.inv) : hist.inv[i].ncalls # Len(hist.calls)
       THEN /\ Cardinality(app.pending) = 1
            /\ \A tmr \in app.pending :
                 tmr.due = hist.calls[Len(hist.calls)].at + debounceDelay
       ELSE app.pending = {}

\* two bursts have been answered, the first one of two calls with different
\* arguments
C28_Witness ==
  /\ ~closure.immediate
  /\ Len(hist.inv) >= 2
  /\ hist.inv[1].ncalls = 2
  /\ hist.calls[1].arg # hist.calls[2].arg
  /\ hist.calls[2].at > hist.calls[1].at


(***************************************************************************)
(* Properties of the nearest-point lookup (SpecNearest).                   *)
(***************************************************************************)
\* squared Euclidean distance of two positions, in squares of 0.1 mm
sqDistance(a, b) ==
  (a[1] - b[1]) * (a[1] - b[1]) + (a[2] - b[2]) * (a[2] - b[2])
    + (a[3] - b[3]) * (a[3] - b[3])

\* C29: for every non-empty conditioned path and every query position the
\* nearest-point lookup stores a valid index of the path whose point is at
\* minimal 3D Euclidean distance from the query, the lowest such index when
\* several points are at that distance.
C29_NearestLowestIndex ==
  lastOp.name = "closest" =>
    /\ pano.pathIndexRef \in 1..Len(pano.cameraPathRef)
    /\ \A j \in 1..Len(pano.cameraPathRef) :
         sqDistance(pano.cameraPathRef[pano.pathIndexRef], lastOp.panoPos)
           <= sqDistance(pano.cameraPathRef[j], lastOp.panoPos)
    /\ \A j \in 1..(pano.pathIndexRef - 1) :
         sqDistance(pano.cameraPathRef[j], lastOp.panoPos)
           > sqDistance(pano.cameraPathRef[pano.pathIndexRef], lastOp.panoPos)

\* the lookup chose the second of three points: the third, a different point
\* that differs from it in height (y), is as near and the first is farther
C29_Witness ==
  /\ lastOp.name = "closest"
  /\ Len(pano.cameraPathRef) = 3
  /\ pano.pathIndexRef = 2
  /\ pano.cameraPathRef[3] # pano.cameraPathRef[2]
  /\ pano.cameraPathRef[3][2] # pano.cameraPathRef[2][2]
  /\ sqDistance(pano.cameraPathRef[3], lastOp.panoPos)
       = sqDistance(pano.cameraPathRef[2], lastOp.panoPos)
  /\ sqDistance(pano.cameraPathRef[1], lastOp.panoPos)
       > sqDistance(pano.cameraPathRef[2], lastOp.panoPos)


(***************************************************************************)
(* Properties of the suppression tokens (SpecSync).                        *)
(***************************************************************************)
\* the token timer of `kind` that carries `token`, is due and is the one the
\* step removes from the timer table
OwnTimerFired(kind, token) ==
  \E i \in 1..Len(app.timers) :
    /\ app.timers[i].kind = kind
    /\ app.timers[i].token = token
    /\ app.timers[i].due <= now
    /\ app'.timers = RemoveAt(app.timers, i)

\* C30: a suppression token is cleared only by the expiry timer of the
\* programmatic update that set it.  A step in which a viewer's token goes
\* from live to null is the firing of the timer that carries this very token,
\* not before the timer is due; the expiry timer of an earlier update leaves
\* the token of a later update in place.
C30_TokenClearedByOwnTimer ==
  [][ /\ (forge.lastProgrammaticTokenRef # 0 /\ forge'.lastProgrammaticTokenRef = 0)
         => /\ lastOp'.name = "forgeTokenExpiry"
            /\ OwnTimerFired("forgeToken", forge.lastProgrammaticTokenRef)
      /\ (pano.lastProgrammaticTokenPano # 0 /\ pano'.lastProgrammaticTokenPano = 0)
         => /\ lastOp'.name = "panoTokenExpiry"
            /\ OwnTimerFired("panoToken", pano.lastProgrammaticTokenPano)
      /\ lastOp'.name = "forgeTokenExpiry"
         => forge'.lastProgrammaticTokenRef \in {0, forge.lastProgrammaticTokenRef}
      /\ lastOp'.name = "panoTokenExpiry"
         => pano'.lastProgrammaticTokenPano \in {0, pano.lastProgrammaticTokenPano}
    ]_vars

\* the timer of an earlier update has just fired while the token of a later
\* update, whose own timer is still pending, is live
C30_Witness ==
  /\ lastOp.name = "forgeTokenExpiry"
  /\ forge.lastProgrammaticTokenRef # 0
  /\ \E i \in 1..Len(app.timers) :
       /\ app.timers[i].kind = "forgeToken"
       /\ app.timers[i].token = forge.lastProgrammaticTokenRef


C32_CompletionReachesTarget ==
  (lastOp.name = "animateSync" /\ lastOp.ran /\ ~store.isAnimating) =>
    IF lastOp.isForge
    THEN /\ store.forgePosition = Obj(store.targetForgePose.pos.c)
         /\ store.forgeCam.quat = store.targetForgePose.quat
    ELSE /\ store.panoPosition = Obj(store.targetPanoPose.pos.c)
         /\ store.panoCam.quat = store.targetPanoPose.quat


\* C33: every started interpolation terminates.  Once the client has made
\* its last operation, an interpolation that is in progress with its 300 ms
\* still within the horizon of the clock ends: isAnimating becomes false,
\* whatever isSyncing was at the time of a tick (LiveStore: animation frames
\* are delivered and time passes).
C33_InterpolationTerminates ==
  (store.isAnimating /\ nOps = MaxOps /\ store.syncStartTime + DURATION <= MaxTime)
    ~> ~store.isAnimating


(***************************************************************************)
(* Properties of the Forge handlers (SpecNav).                             *)
(***************************************************************************)
\* C34: isSyncing is true only while a sync handler is executing.  When the
\* floor-click handler, the main sync or navigateToCalibratedPosition has
\* returned, by its end or by an exception of a navigation call, isSyncing
\* is false.
C34_NotSyncingAfterHandler == ~store.isSyncing


\* C35: after Apply & Save has applied a calibration, the list persisted in
\* localStorage is the list of pairs the applied calibration was computed
\* from (the same pairs in the same order), so that the load effect run on
\* the persisted list accepts it and computes the applied calibration.
C35_PersistedIsApplied ==
  (lastOp.name = "handleApply" /\ lastOp.applied)
    => /\ app.localStorage = [kind |-> "list", rows |-> lastOp.from]
       /\ \A i \in 1..Len(app.localStorage.rows) : parses(app.localStorage.rows[i])
       /\ applyCalibration(app.localStorage.rows) = store.calibration


(***************************************************************************)
(* Properties of PathCameraExplorer (SpecExplorer).                        *)
(***************************************************************************)
currentImage == pano.cameraPathRef[pano.pathIndexRef].image_path

\* C36: a stale texture completion is not applied.  In whatever order the
\* texture loads complete, once none is pending the panorama sphere shows
\* the texture of the image of the current path index, and no texture that
\* the texture cache holds has been disposed.
C36_CurrentTextureShown ==
  /\ (Mounted /\ TextureEffectFlushed /\ pano.loads = {} /\ currentImage # NULL)
       => (pano.map # NULL /\ pano.map.img = currentImage)
  /\ pano.textureCache \cap pano.disposed = {}


====
